---- MODULE Spec2Model ----
(***************************************************************************)
(* A model of gsk/gskcontour.c: the four contour variants (Standard, Rect, *)
(* Rounded-Rect, Circle) behind the GskContourClass dispatch table, and    *)
(* the operations on them.                                                 *)
(*                                                                         *)
(* Numbers.  The C code computes in float.  The model computes exactly:    *)
(* coordinates, lengths, progress values and offsets are rationals (a      *)
(* record [n, d] in lowest terms, d > 0); a Euclidean distance is carried  *)
(* by its square, and comparisons of distances are made on the squares;    *)
(* the points of a circle at multiples of 45 degrees live in Z[sqrt 2].    *)
(* Rounding, overflow and NaN are outside the model.                       *)
(*                                                                         *)
(* External collaborators (gskcurve.c, gskpathbuilder.c, gskspline.c,      *)
(* gskpathop, graphene) are not part of gskcontour.c; they are modelled    *)
(* from their interface as the specification describes it.                 *)
(***************************************************************************)
EXTENDS Integers, Sequences, FiniteSets, TLC

VARIABLES
  contour,   \* the contour the caller holds
  other,     \* a second contour: the result of reverse, or a contour built for comparison
  measure,   \* the measurement context of contour (init_measure .. free_measure)
  call,      \* the last operation called, with its arguments
  out        \* what that operation returned and wrote

vars == <<contour, other, measure, call, out>>

(***************************************************************************)
(* Bounds of the model.                                                    *)
(***************************************************************************)
MaxCoord == 2
MaxSegs == 2
MaxFalse == 2
MaxArcCurves == 2

(***************************************************************************)
(* Exact arithmetic.                                                       *)
(***************************************************************************)
Abs(x) == IF x < 0 THEN -x ELSE x

Sign(x) == IF x < 0 THEN -1 ELSE IF x > 0 THEN 1 ELSE 0

Min(a, b) == IF a <= b THEN a ELSE b

Max(a, b) == IF a >= b THEN a ELSE b

RECURSIVE Gcd(_, _)
Gcd(a, b) == IF b = 0 THEN a ELSE Gcd(b, a % b)

\* The rational n/d in lowest terms with a positive denominator.
Q(n, d) ==
  LET g == Gcd(Abs(n), Abs(d))
      s == IF d < 0 THEN -1 ELSE 1
  IN  [n |-> (s * n) \div g, d |-> (s * d) \div g]

QI(i) == [n |-> i, d |-> 1]

\* Sums and comparisons go through the common denominator a.d * b.d / g,
\* g being the greatest common divisor of the denominators.
QAddOver(a, b, g) == Q(a.n * (b.d \div g) + b.n * (a.d \div g), (a.d \div g) * b.d)

QAdd(a, b) == QAddOver(a, b, Gcd(a.d, b.d))

QSubOver(a, b, g) == Q(a.n * (b.d \div g) - b.n * (a.d \div g), (a.d \div g) * b.d)

QSub(a, b) == QSubOver(a, b, Gcd(a.d, b.d))

QMul(a, b) == Q(a.n * b.n, a.d * b.d)

QDiv(a, b) == Q(a.n * b.d, a.d * b.n)

QNeg(a) == [n |-> -a.n, d |-> a.d]

QAbs(a) == [n |-> Abs(a.n), d |-> a.d]

QLtOver(a, b, g) == a.n * (b.d \div g) < b.n * (a.d \div g)

QLt(a, b) == QLtOver(a, b, Gcd(a.d, b.d))

QLeOver(a, b, g) == a.n * (b.d \div g) <= b.n * (a.d \div g)

QLe(a, b) == QLeOver(a, b, Gcd(a.d, b.d))

QMin(a, b) == IF QLe(a, b) THEN a ELSE b

QZero == QI(0)

QOne == QI(1)

\* graphene_point_t with rational coordinates.
Pt(x, y) == [x |-> x, y |-> y]

PtI(x, y) == [x |-> QI(x), y |-> QI(y)]

\* graphene_point_interpolate (a, b, t)
graphene_point_interpolate(a, b, t) ==
  Pt(QAdd(a.x, QMul(QSub(b.x, a.x), t)), QAdd(a.y, QMul(QSub(b.y, a.y), t)))

\* The square of graphene_point_distance (a, b).
Dist2(a, b) ==
  LET dx == QSub(a.x, b.x)
      dy == QSub(a.y, b.y)
  IN  QAdd(QMul(dx, dx), QMul(dy, dy))

\* The rational square root of a rational that is a perfect square.
IsSquare(i) == \E r \in 0..i : r * r = i

ISqrt(i) == CHOOSE r \in 0..i : r * r = i

QIsSquare(a) == a.n >= 0 /\ IsSquare(a.n) /\ IsSquare(a.d)

QSqrt(a) == [n |-> ISqrt(a.n), d |-> ISqrt(a.d)]

\* graphene_point_distance (a, b), where it is rational.
graphene_point_distance(a, b) == QSqrt(Dist2(a, b))

\* Numbers a + b * sqrt(2) with rational a and b: the coordinates of the
\* points of a circle at the multiples of 45 degrees.
R2(a, b) == [a |-> a, b |-> b]

R2Of(q) == R2(q, QZero)

R2Add(x, y) == R2(QAdd(x.a, y.a), QAdd(x.b, y.b))

R2Sub(x, y) == R2(QSub(x.a, y.a), QSub(x.b, y.b))

R2Mul(x, y) ==
  R2(QAdd(QMul(x.a, y.a), QMul(QI(2), QMul(x.b, y.b))), QAdd(QMul(x.a, y.b), QMul(x.b, y.a)))

\* The sign of a + b * sqrt(2): where a and b disagree, a * a against 2 * b * b decides.
R2Sign(x) ==
  LET sa == Sign(x.a.n)
      sb == Sign(x.b.n)
  IN  IF sa = sb \/ sb = 0 THEN sa
      ELSE IF sa = 0 THEN sb
      ELSE IF QLt(QMul(QI(2), QMul(x.b, x.b)), QMul(x.a, x.a)) THEN sa ELSE sb

R2Lt(x, y) == R2Sign(R2Sub(x, y)) < 0

\* cos and sin of an angle in degrees, a multiple of 45.
Cos(angle) ==
  LET k == (angle \div 45) % 8
  IN  CASE k = 0 -> R2(QOne, QZero)
        [] k \in {1, 7} -> R2(QZero, Q(1, 2))
        [] k \in {2, 6} -> R2(QZero, QZero)
        [] k \in {3, 5} -> R2(QZero, Q(-1, 2))
        [] k = 4 -> R2(QI(-1), QZero)

Sin(angle) == Cos(angle - 90)

\* The dot product of two vectors with coordinates in R2.
R2Dot(v, w) == R2Add(R2Mul(v.x, w.x), R2Mul(v.y, w.y))

R2Pt(p) == [x |-> R2Of(p.x), y |-> R2Of(p.y)]

GridOf(m) == {PtI(x, y) : x \in 0..m, y \in 0..m}

Grid == GridOf(MaxCoord)

NoContour == [klass |-> "None"]

NoMeasure == [klass |-> "None"]

NoCall == [name |-> "none"]

NoOut == [name |-> "none"]

(***************************************************************************)
(* Path operations and the Standard contour.  A pathop is an operation     *)
(* kind and the place of its first point in the contour's point buffer     *)
(* (pt, counted from 1); the points of an operation are consecutive.       *)
(***************************************************************************)
\* gsk_pathop_encode (op, pts)
gsk_pathop_encode(op, pt) == [op |-> op, pt |-> pt]

\* The number of points of an operation as gsk_pathop_foreach passes them.
n_pts_of(op) ==
  CASE op = "MOVE"  -> 1
    [] op = "CLOSE" -> 2
    [] op = "LINE"  -> 2
    [] op = "QUAD"  -> 3
    [] op = "CONIC" -> 3
    [] op = "CUBIC" -> 4

\* struct _GskStandardContour
StandardContour(closed, points, ops) ==
  [klass |-> "Standard", closed |-> closed, points |-> points, ops |-> ops]

\* struct _GskRectContour, gsk_rect_contour_new
gsk_rect_contour_new(x, y, width, height) ==
  [klass |-> "Rect", x |-> x, y |-> y, width |-> width, height |-> height]

\* struct _GskRoundedRectContour, gsk_rounded_rect_contour_new: ccw starts FALSE (g_new0)
RoundedRectContour(rect, ccw) == [klass |-> "RoundedRect", rect |-> rect, ccw |-> ccw]

gsk_rounded_rect_contour_new(rect) == RoundedRectContour(rect, FALSE)

\* struct _GskCircleContour, gsk_circle_contour_new; angles in degrees
gsk_circle_contour_new(center, radius, start_angle, end_angle) ==
  [klass |-> "Circle", center |-> center, radius |-> radius,
   start_angle |-> start_angle, end_angle |-> end_angle]

(***************************************************************************)
(* The visitor of foreach.  A visitor is given by the set F of the call    *)
(* numbers at which it answers FALSE.  A call is recorded with the array   *)
(* it points into (arr), the C index of its first point in that array      *)
(* (base), its point count (n) and the weight.                             *)
(***************************************************************************)
ForeachCall(op, arr, base, n, weight) ==
  [op |-> op, arr |-> arr, base |-> base, n |-> n, weight |-> weight]

\* One call of func: the call is recorded, ok is the visitor's answer.
func(F, calls, c) ==
  [calls |-> Append(calls, c), ok |-> (Len(calls) + 1) \notin F]

\* gsk_pathop_foreach (self->ops[i], func, user_data)
\* A conic is stored as four points, the third holding the weight in its x;
\* it is passed as three points (start, control, end) and the weight.
gsk_pathop_foreach(self, i, F, calls) ==
  LET pop == self.ops[i]
      pts == self.points
  IN  IF pop.op = "CONIC"
        THEN func(F, calls, ForeachCall("CONIC", << pts[pop.pt], pts[pop.pt + 1], pts[pop.pt + 3] >>,
                                        0, 3, pts[pop.pt + 2].x))
        ELSE func(F, calls, ForeachCall(pop.op, pts, pop.pt - 1, n_pts_of(pop.op), "0"))

RECURSIVE gsk_standard_contour_foreach_from(_, _, _, _)
gsk_standard_contour_foreach_from(self, i, F, calls) ==
  IF i > Len(self.ops)
    THEN [calls |-> calls, ret |-> TRUE]
    ELSE LET r == gsk_pathop_foreach(self, i, F, calls)
         IN  IF ~r.ok
               THEN [calls |-> r.calls, ret |-> FALSE]
               ELSE gsk_standard_contour_foreach_from(self, i + 1, F, r.calls)

\* The loop without its early return: every operation is visited and TRUE returned.
gsk_standard_contour_foreach_no_return(self, F) ==
  [calls |-> gsk_standard_contour_foreach_from(self, 1, {}, <<>>).calls, ret |-> TRUE]

gsk_standard_contour_foreach(self, F) ==
  gsk_standard_contour_foreach_from(self, 1, F, <<>>)

\* C's a && b && ... over the calls cs: the calls are made in order, up to
\* and including the first that answers FALSE.
RECURSIVE AndChain(_, _, _, _)
AndChain(cs, i, F, calls) ==
  IF i > Len(cs)
    THEN [calls |-> calls, ret |-> TRUE]
    ELSE LET r == func(F, calls, cs[i])
         IN  IF ~r.ok
               THEN [calls |-> r.calls, ret |-> FALSE]
               ELSE AndChain(cs, i + 1, F, r.calls)

gsk_rect_contour_points(self) ==
  << Pt(self.x, self.y),
     Pt(QAdd(self.x, self.width), self.y),
     Pt(QAdd(self.x, self.width), QAdd(self.y, self.height)),
     Pt(self.x, QAdd(self.y, self.height)),
     Pt(self.x, self.y) >>

gsk_rect_contour_foreach(self, F) ==
  LET pts == gsk_rect_contour_points(self)
  IN  AndChain(<< ForeachCall("MOVE", pts, 0, 1, "0"),
                  ForeachCall("LINE", pts, 0, 2, "0"),
                  ForeachCall("LINE", pts, 1, 2, "0"),
                  ForeachCall("LINE", pts, 2, 2, "0"),
                  ForeachCall("CLOSE", pts, 3, 2, "0") >>, 1, F, <<>>)

\* get_rounded_rect_points: pts[0..12] is the sequence's 1..13
get_rounded_rect_points(rect) ==
  LET x  == rect.bounds.x
      y  == rect.bounds.y
      w  == rect.bounds.width
      h  == rect.bounds.height
      tl == rect.corner.TOP_LEFT
      tr == rect.corner.TOP_RIGHT
      br == rect.corner.BOTTOM_RIGHT
      bl == rect.corner.BOTTOM_LEFT
  IN  << Pt(QAdd(x, tl.width), y),
         Pt(QSub(QAdd(x, w), tr.width), y),
         Pt(QAdd(x, w), y),
         Pt(QAdd(x, w), QAdd(y, tr.height)),
         Pt(QAdd(x, w), QSub(QAdd(y, h), br.height)),
         Pt(QAdd(x, w), QAdd(y, h)),
         Pt(QSub(QAdd(x, w), tr.width), QAdd(y, h)),
         Pt(QAdd(x, bl.width), QAdd(y, h)),
         Pt(x, QAdd(y, h)),
         Pt(x, QSub(QAdd(y, h), bl.height)),
         Pt(x, QAdd(y, tl.height)),
         Pt(x, y),
         Pt(QAdd(x, tl.width), y) >>

\* The five SWAPs of the ccw branch: pts[i] <-> pts[12 - i] for i = 1..5.
rounded_rect_swap_points(pts) ==
  [i \in 1..13 |-> IF i \in 2..12 THEN pts[14 - i] ELSE pts[i]]

gsk_rounded_rect_contour_foreach(self, F) ==
  LET pts == get_rounded_rect_points(self.rect)
      sw  == rounded_rect_swap_points(pts)
  IN  IF self.ccw
        THEN AndChain(<< ForeachCall("MOVE", sw, 0, 1, "0"),
                         ForeachCall("CONIC", sw, 0, 3, "M_SQRT1_2"),
                         ForeachCall("LINE", sw, 2, 2, "0"),
                         ForeachCall("CONIC", sw, 3, 3, "M_SQRT1_2"),
                         ForeachCall("LINE", sw, 5, 2, "0"),
                         ForeachCall("CONIC", sw, 6, 3, "M_SQRT1_2"),
                         ForeachCall("LINE", sw, 8, 2, "0"),
                         ForeachCall("CONIC", sw, 9, 3, "M_SQRT1_2"),
                         ForeachCall("LINE", sw, 11, 2, "0"),
                         ForeachCall("CLOSE", sw, 12, 2, "0") >>, 1, F, <<>>)
        ELSE AndChain(<< ForeachCall("MOVE", pts, 0, 1, "0"),
                         ForeachCall("LINE", pts, 0, 2, "0"),
                         ForeachCall("CONIC", pts, 1, 3, "M_SQRT1_2"),
                         ForeachCall("LINE", pts, 3, 2, "0"),
                         ForeachCall("CONIC", pts, 4, 3, "M_SQRT1_2"),
                         ForeachCall("LINE", pts, 6, 2, "0"),
                         ForeachCall("CONIC", pts, 7, 3, "M_SQRT1_2"),
                         ForeachCall("LINE", pts, 9, 2, "0"),
                         ForeachCall("CONIC", pts, 10, 3, "M_SQRT1_2"),
                         ForeachCall("CLOSE", pts, 12, 2, "0") >>, 1, F, <<>>)

\* gsk_spline_decompose_arc: the arc from start_angle to end_angle as k cubic
\* curves, each handed to gsk_circle_contour_curve, stopping at the first
\* FALSE.  The control points of the curves are not computed: the point i of
\* curve j is the term [arc, j, i].
ArcCurve(self, from, to, j, k) ==
  [i \in 1..4 |-> [arc |-> << self.center, self.radius, from, to >>, j |-> j, of |-> k, i |-> i]]

RECURSIVE gsk_spline_decompose_arc(_, _, _, _, _, _, _)
gsk_spline_decompose_arc(self, from, to, j, k, F, calls) ==
  IF j > k
    THEN [calls |-> calls, ret |-> TRUE]
    ELSE LET r == func(F, calls, ForeachCall("CUBIC", ArcCurve(self, from, to, j, k), 0, 4, "0"))
         IN  IF ~r.ok
               THEN [calls |-> r.calls, ret |-> FALSE]
               ELSE gsk_spline_decompose_arc(self, from, to, j + 1, k, F, r.calls)

\* The point of the circle at an angle, as the term GSK_CIRCLE_POINT_INIT builds it from.
CirclePointTerm(self, angle) == [circle |-> << self.center, self.radius >>, angle |-> angle]

\* fabs (self->start_angle - self->end_angle) >= 360
circle_is_closed(self) == Abs(self.start_angle - self.end_angle) >= 360

\* k: the number of curves the arc decomposes into at the given tolerance
gsk_circle_contour_foreach(self, k, F) ==
  LET start == CirclePointTerm(self, self.start_angle)
      r1    == func(F, <<>>, ForeachCall("MOVE", << start >>, 0, 1, "0"))
  IN  IF ~r1.ok
        THEN [calls |-> r1.calls, ret |-> FALSE]
        ELSE LET r2 == gsk_spline_decompose_arc(self, self.start_angle, self.end_angle, 1, k, F, r1.calls)
             IN  IF ~r2.ret
                   THEN [calls |-> r2.calls, ret |-> FALSE]
                   ELSE IF circle_is_closed(self)
                          THEN LET r3 == func(F, r2.calls, ForeachCall("CLOSE", << start, start >>, 0, 2, "0"))
                               IN  [calls |-> r3.calls, ret |-> r3.ok]
                          ELSE [calls |-> r2.calls, ret |-> TRUE]

\* gsk_contour_foreach: the dispatch through klass->foreach
gsk_contour_foreach(self, k, F) ==
  CASE self.klass = "Standard"    -> gsk_standard_contour_foreach(self, F)
    [] self.klass = "Rect"        -> gsk_rect_contour_foreach(self, F)
    [] self.klass = "RoundedRect" -> gsk_rounded_rect_contour_foreach(self, F)
    [] self.klass = "Circle"      -> gsk_circle_contour_foreach(self, k, F)

(***************************************************************************)
(* The path builder (gskpathbuilder.c), from its interface: the operations *)
(* called on it are appended to the current contour; an operation starts   *)
(* at the current point, the last point of the buffer.  move_to and close  *)
(* end the current contour.                                                *)
(***************************************************************************)
gsk_path_builder_new == [done |-> <<>>, closed |-> FALSE, points |-> <<>>, ops |-> <<>>]

gsk_path_builder_end_current(b) ==
  IF Len(b.ops) = 0
    THEN b
    ELSE [done |-> Append(b.done, StandardContour(b.closed, b.points, b.ops)),
          closed |-> FALSE, points |-> <<>>, ops |-> <<>>]

gsk_path_builder_move_to(b, p) ==
  LET e == gsk_path_builder_end_current(b)
  IN  [e EXCEPT !.points = << p >>, !.ops = << gsk_pathop_encode("MOVE", 1) >>]

\* An operation with no current point starts a contour at the origin.
builder_started(b) ==
  IF Len(b.ops) = 0 THEN gsk_path_builder_move_to(b, PtI(0, 0)) ELSE b

gsk_path_builder_append_current(b, op, pts) ==
  LET s == builder_started(b)
  IN  [s EXCEPT !.ops = Append(s.ops, gsk_pathop_encode(op, Len(s.points))),
                !.points = s.points \o pts]

gsk_path_builder_line_to(b, p) == gsk_path_builder_append_current(b, "LINE", << p >>)

gsk_path_builder_quad_to(b, p1, p2) == gsk_path_builder_append_current(b, "QUAD", << p1, p2 >>)

gsk_path_builder_cubic_to(b, p1, p2, p3) ==
  gsk_path_builder_append_current(b, "CUBIC", << p1, p2, p3 >>)

gsk_path_builder_conic_to(b, p1, p2, weight) ==
  gsk_path_builder_append_current(b, "CONIC", << p1, Pt(weight, QZero), p2 >>)

gsk_path_builder_close(b) ==
  IF Len(b.ops) = 0
    THEN b
    ELSE LET s == gsk_path_builder_append_current([b EXCEPT !.closed = TRUE], "CLOSE", << b.points[1] >>)
         IN  gsk_path_builder_end_current(s)

\* gsk_path_builder_free_to_path: the contours of the path
gsk_path_builder_free_to_path(b) == gsk_path_builder_end_current(b).done

(***************************************************************************)
(* The contours the model is run on.                                       *)
(***************************************************************************)
\* The points a segment from p may end at: on the row or the column of p, so
\* that every length is rational; p itself gives a segment of zero length.
Neigh(G, p) == {q \in G : q.x = p.x \/ q.y = p.y}

\* A line, or a quadratic curve whose control point lies on an end point (a
\* straight curve whose progress is not proportional to its length).
Cmds(G, p, quads) ==
  {[c |-> "L", to |-> q] : q \in Neigh(G, p)}
    \cup (IF quads
            THEN {[c |-> "Q", ctrl |-> p, to |-> q] : q \in Neigh(G, p) \ {p}}
                   \cup {[c |-> "Q", ctrl |-> q, to |-> q] : q \in Neigh(G, p) \ {p}}
            ELSE {})

RECURSIVE PathsFrom(_, _, _, _)
PathsFrom(G, p, n, quads) ==
  IF n = 0
    THEN {<<>>}
    ELSE UNION {{<< c >> \o rest : rest \in PathsFrom(G, c.to, n - 1, quads)} :
                  c \in Cmds(G, p, quads)}

PathsUpTo(G, p, n, quads) == UNION {PathsFrom(G, p, k, quads) : k \in 0..n}

ApplyCmd(b, c) ==
  IF c.c = "L"
    THEN gsk_path_builder_line_to(b, c.to)
    ELSE gsk_path_builder_quad_to(b, c.ctrl, c.to)

RECURSIVE ApplyCmds(_, _, _)
ApplyCmds(b, cmds, i) ==
  IF i > Len(cmds) THEN b ELSE ApplyCmds(ApplyCmd(b, cmds[i]), cmds, i + 1)

\* The Standard contour a caller gets from the builder for move_to, cmds and
\* an optional close.
BuildStandard(start, cmds, closed) ==
  LET b1 == ApplyCmds(gsk_path_builder_move_to(gsk_path_builder_new, start), cmds, 1)
      b2 == IF closed THEN gsk_path_builder_close(b1) ELSE b1
  IN  gsk_path_builder_free_to_path(b2)[1]

\* The Standard contours of at most n segments on the points G that start in starts.
StandardContours(G, starts, n, quads) ==
  UNION {{BuildStandard(p, cmds, closed) : cmds \in PathsUpTo(G, p, n, quads), closed \in BOOLEAN} :
           p \in starts}

Sizes == (-MaxCoord)..MaxCoord

RectContours ==
  {gsk_rect_contour_new(QI(x), QI(y), QI(w), QI(h)) : x \in 0..1, y \in 0..1, w \in Sizes, h \in Sizes}

QSize(w, h) == [width |-> QI(w), height |-> QI(h)]

CornerSizes == {QSize(0, 0), QSize(1, 1), QSize(1, 2)}

\* GskRoundedRect: bounds and the four corners
RoundedRect(x, y, w, h, tl, tr, br, bl) ==
  [bounds |-> [x |-> QI(x), y |-> QI(y), width |-> QI(w), height |-> QI(h)],
   corner |-> [TOP_LEFT |-> tl, TOP_RIGHT |-> tr, BOTTOM_RIGHT |-> br, BOTTOM_LEFT |-> bl]]

RoundedRectContours ==
  {RoundedRectContour(RoundedRect(0, 0, 4, 6, tl, tr, br, bl), ccw) :
     tl \in CornerSizes, tr \in CornerSizes, br \in CornerSizes, bl \in CornerSizes,
     ccw \in BOOLEAN}

Angles == {-180, -90, 0, 90, 180, 270, 360}

\* gsk_circle_contour_new asserts fabs (start_angle - end_angle) <= 360; an
\* arc of no extent (start_angle = end_angle) is left out.
CircleContours ==
  {gsk_circle_contour_new(PtI(cx, 0), r, a[1], a[2]) :
     cx \in 0..1, r \in 1..MaxCoord,
     a \in {b \in Angles \X Angles : b[1] # b[2] /\ Abs(b[1] - b[2]) <= 360}}

(***************************************************************************)
(* Specification SpecForeach: a caller traverses a contour with a visitor. *)
(***************************************************************************)
\* The operations of a contour in traversal order, from the data model.
RECURSIVE Repeat(_, _)
Repeat(x, n) == IF n = 0 THEN <<>> ELSE << x >> \o Repeat(x, n - 1)

OperationsOf(c, k) ==
  CASE c.klass = "Standard" -> [i \in 1..Len(c.ops) |-> c.ops[i].op]
    [] c.klass = "Rect" -> << "MOVE", "LINE", "LINE", "LINE", "CLOSE" >>
    [] c.klass = "RoundedRect" ->
         IF c.ccw
           THEN << "MOVE", "CONIC", "LINE", "CONIC", "LINE", "CONIC", "LINE", "CONIC", "LINE", "CLOSE" >>
           ELSE << "MOVE", "LINE", "CONIC", "LINE", "CONIC", "LINE", "CONIC", "LINE", "CONIC", "CLOSE" >>
    [] c.klass = "Circle" ->
         << "MOVE" >> \o Repeat("CUBIC", k) \o (IF circle_is_closed(c) THEN << "CLOSE" >> ELSE <<>>)

\* The visitors of a traversal of at most n calls.
Visitors(n) == {F \in SUBSET (1..n) : Cardinality(F) <= MaxFalse}

ForeachContours ==
  StandardContours(GridOf(1), {PtI(0, 0)}, MaxSegs, TRUE) \cup RectContours \cup RoundedRectContours
    \cup CircleContours

InitForeach ==
  /\ contour \in ForeachContours
  /\ other = NoContour
  /\ measure = NoMeasure
  /\ call = NoCall
  /\ out = NoOut

\* k, the number of curves of an arc, is an input of the Circle alone.
Foreach(k, F) ==
  /\ call = NoCall
  /\ contour.klass = "Circle" \/ k = 1
  /\ call' = [name |-> "foreach", k |-> k, F |-> F]
  /\ out' = gsk_contour_foreach(contour, k, F)
  /\ UNCHANGED <<contour, other, measure>>

NextForeach ==
  \E k \in 1..MaxArcCurves :
    \E F \in Visitors(Len(OperationsOf(contour, k)) + 1) : Foreach(k, F)

SpecForeach == InitForeach /\ [][NextForeach]_vars

\* C1: foreach calls the visitor on the contour's operations in traversal
\* order, makes no call after the first call that answers FALSE, and returns
\* FALSE exactly when some call answered FALSE; with no FALSE answer every
\* operation is visited.
C1_ForeachStopsAtFirstFalse ==
  call.name = "foreach" =>
    LET n   == Len(out.calls)
        ops == OperationsOf(contour, call.k)
    IN  /\ n <= Len(ops)
        /\ \A i \in 1..n : out.calls[i].op = ops[i]
        /\ \A i \in 1..(n - 1) : i \notin call.F
        /\ out.ret = (\A i \in 1..n : i \notin call.F)
        /\ out.ret => n = Len(ops)

\* A traversal of a Standard contour that the visitor stopped before the end.
C1_Witness ==
  /\ call.name = "foreach"
  /\ contour.klass = "Standard"
  /\ ~out.ret
  /\ Len(out.calls) = 2
  /\ Len(contour.ops) = 3

(***************************************************************************)
(* The curve primitive (gskcurve.c), from its interface.  A curve is an    *)
(* operation with its points.  Lines and quadratic curves are evaluated    *)
(* exactly; the inner points of conics and cubics, and the tangents of     *)
(* curves, are terms over the curve and the position.                      *)
(***************************************************************************)
Curve(op, pts, weight) == [op |-> op, pts |-> pts, weight |-> weight]

\* gsk_curve_init (&curve, self->ops[i])
gsk_curve_init(self, i) ==
  LET pop == self.ops[i]
      pts == self.points
  IN  IF pop.op = "CONIC"
        THEN Curve("CONIC", << pts[pop.pt], pts[pop.pt + 1], pts[pop.pt + 3] >>, pts[pop.pt + 2].x)
        ELSE Curve(pop.op, [k \in 1..n_pts_of(pop.op) |-> pts[pop.pt + k - 1]], "0")

\* gsk_curve_init_foreach (&curve, op, pts, n_pts, weight)
gsk_curve_init_foreach(op, pts, weight) == Curve(op, pts, weight)

gsk_curve_get_start_point(curve) == curve.pts[1]

gsk_curve_get_end_point(curve) == curve.pts[Len(curve.pts)]

\* gsk_curve_get_point (&curve, progress, &pos)
gsk_curve_get_point(curve, t) ==
  CASE curve.op \in {"LINE", "CLOSE"} ->
         graphene_point_interpolate(curve.pts[1], curve.pts[2], t)
    [] curve.op = "QUAD" ->
         graphene_point_interpolate(graphene_point_interpolate(curve.pts[1], curve.pts[2], t),
                                    graphene_point_interpolate(curve.pts[2], curve.pts[3], t), t)
    [] OTHER ->
         IF t = QZero THEN gsk_curve_get_start_point(curve)
         ELSE IF t = QOne THEN gsk_curve_get_end_point(curve)
         ELSE [curve |-> curve, t |-> t]

\* The direction of a vector with rational coordinates: the shortest integer
\* vector that points the same way, standing for the unit vector.
Direction(dx, dy) ==
  LET ix == dx.n * dy.d
      iy == dy.n * dx.d
      g  == Gcd(Abs(ix), Abs(iy))
  IN  IF g = 0 THEN [dx |-> 0, dy |-> 0] ELSE [dx |-> ix \div g, dy |-> iy \div g]

\* gsk_curve_get_tangent (&curve, progress, &tangent)
gsk_curve_get_tangent(curve, t) ==
  IF curve.op \in {"LINE", "CLOSE"}
    THEN Direction(QSub(curve.pts[2].x, curve.pts[1].x), QSub(curve.pts[2].y, curve.pts[1].y))
    ELSE [tangent |-> curve, t |-> t]

\* One piece of a decomposition, as gsk_curve_decompose hands it to its callback.
Piece(from, to, from_progress, to_progress, reason) ==
  [from |-> from, to |-> to, from_progress |-> from_progress, to_progress |-> to_progress,
   reason |-> reason]

\* gsk_curve_decompose (&curve, tolerance, add_line_func, user_data): a line
\* is one straight piece; a quadratic curve is one short piece at a tolerance
\* of 1 or more and two short pieces, cut at 1/2, below; a conic or a cubic
\* is one short piece.
gsk_curve_decompose(curve, tolerance) ==
  LET a == gsk_curve_get_start_point(curve)
      b == gsk_curve_get_end_point(curve)
  IN  CASE curve.op \in {"LINE", "CLOSE"} -> << Piece(a, b, QZero, QOne, "STRAIGHT") >>
        [] curve.op = "QUAD" /\ QLt(tolerance, QOne) ->
             LET m == gsk_curve_get_point(curve, Q(1, 2))
             IN  << Piece(a, m, QZero, Q(1, 2), "SHORT"), Piece(m, b, Q(1, 2), QOne, "SHORT") >>
        [] OTHER -> << Piece(a, b, QZero, QOne, "SHORT") >>

\* gsk_curve_split (&curve, progress, &left, &right): a line and a quadratic
\* curve are cut exactly (de Casteljau); the inner control points of the two
\* parts of a conic or a cubic are terms.
gsk_curve_split(curve, t) ==
  LET n == Len(curve.pts)
      m == gsk_curve_get_point(curve, t)
  IN  CASE curve.op \in {"LINE", "CLOSE"} ->
             [left |-> Curve(curve.op, << curve.pts[1], m >>, curve.weight),
              right |-> Curve(curve.op, << m, curve.pts[2] >>, curve.weight)]
        [] curve.op = "QUAD" ->
             [left |-> Curve("QUAD", << curve.pts[1],
                                        graphene_point_interpolate(curve.pts[1], curve.pts[2], t), m >>, "0"),
              right |-> Curve("QUAD", << m, graphene_point_interpolate(curve.pts[2], curve.pts[3], t),
                                         curve.pts[3] >>, "0")]
        [] OTHER ->
             [left |-> Curve(curve.op,
                             [k \in 1..n |-> IF k = 1 THEN curve.pts[1] ELSE IF k = n THEN m
                                             ELSE [left_of |-> curve, t |-> t, k |-> k]],
                             IF curve.op = "CONIC" THEN [left_of |-> curve, t |-> t] ELSE "0"),
              right |-> Curve(curve.op,
                              [k \in 1..n |-> IF k = 1 THEN m ELSE IF k = n THEN curve.pts[n]
                                              ELSE [right_of |-> curve, t |-> t, k |-> k]],
                              IF curve.op = "CONIC" THEN [right_of |-> curve, t |-> t] ELSE "0")]

\* gsk_curve_segment (&curve, start, end, &segment): the part from start to end
gsk_curve_segment(curve, start, end) ==
  IF start = QZero /\ end = QOne
    THEN curve
    ELSE IF end = QZero
           THEN gsk_curve_split(curve, QZero).left
           ELSE gsk_curve_split(gsk_curve_split(curve, end).left, QDiv(start, end)).right

\* gsk_curve_reverse (&curve, &reverse)
gsk_curve_reverse(curve) ==
  Curve(curve.op, [k \in 1..Len(curve.pts) |-> curve.pts[Len(curve.pts) + 1 - k]], curve.weight)

\* gsk_curve_builder_to (&curve, builder)
gsk_curve_builder_to(curve, b) ==
  CASE curve.op \in {"LINE", "CLOSE"} -> gsk_path_builder_line_to(b, curve.pts[2])
    [] curve.op = "QUAD" -> gsk_path_builder_quad_to(b, curve.pts[2], curve.pts[3])
    [] curve.op = "CONIC" -> gsk_path_builder_conic_to(b, curve.pts[2], curve.pts[3], curve.weight)
    [] curve.op = "CUBIC" -> gsk_path_builder_cubic_to(b, curve.pts[2], curve.pts[3], curve.pts[4])

\* gsk_path_builder_pathop_to (builder, self->ops[i])
gsk_path_builder_pathop_to(b, self, i, op) ==
  LET pts == self.points
      pt  == self.ops[i].pt
  IN  CASE op = "MOVE" -> gsk_path_builder_move_to(b, pts[pt])
        [] op = "CLOSE" -> gsk_path_builder_close(b)
        [] op = "LINE" -> gsk_path_builder_line_to(b, pts[pt + 1])
        [] op = "QUAD" -> gsk_path_builder_quad_to(b, pts[pt + 1], pts[pt + 2])
        [] op = "CUBIC" -> gsk_path_builder_cubic_to(b, pts[pt + 1], pts[pt + 2], pts[pt + 3])
        [] op = "CONIC" -> gsk_path_builder_conic_to(b, pts[pt + 1], pts[pt + 3], pts[pt + 2].x)

(***************************************************************************)
(* Standard: the length table.  An entry names its operation by its place  *)
(* in ops counted from 1 (the C index plus one).                           *)
(***************************************************************************)
\* An entry that does not carry the running length: every entry starts at 0.
StandardContourMeasure_from_zero(start, end, piece, op) ==
  [start |-> QZero, end |-> QSub(end, start),
   start_progress |-> piece.from_progress, end_progress |-> piece.to_progress,
   reason |-> piece.reason, start_point |-> piece.from, end_point |-> piece.to, op |-> op]

\* GskStandardContourMeasure
StandardContourMeasure(start, end, piece, op) ==
  [start |-> start, end |-> end,
   start_progress |-> piece.from_progress, end_progress |-> piece.to_progress,
   reason |-> piece.reason, start_point |-> piece.from, end_point |-> piece.to, op |-> op]

\* gsk_standard_contour_measure_get_point_at
gsk_standard_contour_measure_get_point_at(measure_, progress) ==
  graphene_point_interpolate(measure_.start_point, measure_.end_point,
                             QDiv(QSub(progress, measure_.start), QSub(measure_.end, measure_.start)))

\* gsk_standard_contour_measure_add_point for the pieces of one operation, in
\* order: decomp is the array and the running start of the next entry.
RECURSIVE gsk_standard_contour_measure_add_points(_, _, _, _)
gsk_standard_contour_measure_add_points(decomp, pieces, k, op) ==
  IF k > Len(pieces)
    THEN decomp
    ELSE LET piece      == pieces[k]
             seg_length == graphene_point_distance(piece.from, piece.to)
         IN  IF seg_length = QZero
               THEN gsk_standard_contour_measure_add_points(decomp, pieces, k + 1, op)
               ELSE gsk_standard_contour_measure_add_points(
                      [array |-> Append(decomp.array,
                                        StandardContourMeasure(decomp.start, QAdd(decomp.start, seg_length),
                                                               piece, op)),
                       start |-> QAdd(decomp.start, seg_length)],
                      pieces, k + 1, op)

RECURSIVE gsk_standard_contour_init_measure_from(_, _, _, _)
gsk_standard_contour_init_measure_from(self, tolerance, i, decomp) ==
  IF i > Len(self.ops)
    THEN decomp
    ELSE gsk_standard_contour_init_measure_from(
           self, tolerance, i + 1,
           gsk_standard_contour_measure_add_points(
             decomp, gsk_curve_decompose(gsk_curve_init(self, i), tolerance), 1, i))

\* gsk_standard_contour_init_measure: the array and *out_length
gsk_standard_contour_init_measure(self, tolerance) ==
  LET d == gsk_standard_contour_init_measure_from(self, tolerance, 2, [array |-> <<>>, start |-> QZero])
  IN  [klass |-> "Standard", tolerance |-> tolerance, array |-> d.array, length |-> d.start]

\* gsk_standard_contour_find_measure
gsk_standard_contour_find_measure(measure_, length) ==
  IF QLt(length, measure_.start) THEN 1
  ELSE IF QLe(measure_.end, length) THEN -1
  ELSE 0

\* g_array_binary_search (array, &distance, gsk_standard_contour_find_measure, &index):
\* whether an entry compares equal, and its place.
g_array_binary_search(array, distance) ==
  LET hits == {i \in 1..Len(array) : gsk_standard_contour_find_measure(array[i], distance) = 0}
  IN  IF hits = {} THEN [found |-> FALSE, index |-> 0]
      ELSE [found |-> TRUE, index |-> CHOOSE i \in hits : TRUE]

(***************************************************************************)
(* Standard: get_point.                                                    *)
(***************************************************************************)
\* GskPathDirection
GSK_PATH_START == 0

GSK_PATH_END == 1

\* The choice of the entry with the wrap of a closed contour going to the
\* first entry instead of the last.
standard_get_point_measure_wrap_first(self, array, index, distance, direction) ==
  LET found == array[index]
  IN  IF distance = found.start /\ direction = GSK_PATH_START /\ (index > 1 \/ self.closed)
        THEN [measure |-> array[IF index > 1 THEN index - 1 ELSE 1], progress |-> QOne]
        ELSE [measure |-> found,
              progress |-> QDiv(QSub(distance, found.start), QSub(found.end, found.start))]

\* The choice of the entry without the step back at the start of an entry:
\* the entry the search found, whatever the direction.
standard_get_point_measure_found(self, array, index, distance, direction) ==
  [measure |-> array[index],
   progress |-> QDiv(QSub(distance, array[index].start), QSub(array[index].end, array[index].start))]

\* The entry that get_point evaluates and the progress inside it, for the
\* entry the search found: at the start of an entry and approaching, the end
\* of the entry before, which for a closed contour wraps to the last entry.
standard_get_point_measure(self, array, index, distance, direction) ==
  LET found == array[index]
  IN  IF distance = found.start /\ direction = GSK_PATH_START /\ index > 1
        THEN [measure |-> array[index - 1], progress |-> QOne]
        ELSE IF distance = found.start /\ direction = GSK_PATH_START /\ index = 1 /\ self.closed
               THEN [measure |-> array[Len(array)], progress |-> QOne]
               ELSE [measure |-> found,
                     progress |-> QDiv(QSub(distance, found.start), QSub(found.end, found.start))]

\* gsk_standard_contour_get_point: *pos and *tangent
gsk_standard_contour_get_point(self, array, distance, direction) ==
  IF Len(array) = 0
    THEN [pos |-> self.points[1], tangent |-> Direction(QOne, QZero), progress |-> QZero]
    ELSE LET r        == g_array_binary_search(array, distance)
             index    == IF r.found THEN r.index ELSE Len(array)
             m        == standard_get_point_measure(self, array, index, distance, direction)
             progress == QAdd(m.measure.start_progress,
                              QMul(QSub(m.measure.end_progress, m.measure.start_progress), m.progress))
             curve    == gsk_curve_init(self, m.measure.op)
         IN  [pos |-> gsk_curve_get_point(curve, progress),
              tangent |-> gsk_curve_get_tangent(curve, progress),
              progress |-> progress]

(***************************************************************************)
(* Rect.                                                                   *)
(***************************************************************************)
\* graphene_rect_init: the rectangle, normalized (a negative width or height
\* moves the origin and becomes positive).
graphene_rect_init(x, y, width, height) ==
  [x |-> IF QLt(width, QZero) THEN QAdd(x, width) ELSE x,
   y |-> IF QLt(height, QZero) THEN QAdd(y, height) ELSE y,
   width |-> QAbs(width), height |-> QAbs(height)]

\* graphene_rect_contains_point: the edges belong to the rectangle.
graphene_rect_contains_point(r, p) ==
  /\ QLe(r.x, p.x) /\ QLe(p.x, QAdd(r.x, r.width))
  /\ QLe(r.y, p.y) /\ QLe(p.y, QAdd(r.y, r.height))

\* gsk_rect_contour_init_measure: no context (NULL), the length is returned.
gsk_rect_contour_init_measure(self, tolerance) ==
  [klass |-> "Rect", tolerance |-> tolerance,
   length |-> QAdd(QMul(QI(2), QAbs(self.width)), QMul(QI(2), QAbs(self.height)))]

\* The containment test on the rectangle as given, with no normalization.
gsk_rect_contour_get_winding_signed(self, point) ==
  IF /\ QLe(self.x, point.x) /\ QLe(point.x, QAdd(self.x, self.width))
     /\ QLe(self.y, point.y) /\ QLe(point.y, QAdd(self.y, self.height))
    THEN -1
    ELSE 0

gsk_rect_contour_get_winding(self, point) ==
  LET rect == graphene_rect_init(self.x, self.y, self.width, self.height)
  IN  IF graphene_rect_contains_point(rect, point) THEN -1 ELSE 0

(***************************************************************************)
(* Circle.                                                                 *)
(***************************************************************************)
\* GSK_CIRCLE_POINT_INIT (self, angle)
GSK_CIRCLE_POINT_INIT(self, angle) ==
  [x |-> R2Add(R2Of(self.center.x), R2Mul(Cos(angle), R2Of(QI(self.radius)))),
   y |-> R2Add(R2Of(self.center.y), R2Mul(Sin(angle), R2Of(QI(self.radius))))]

gsk_circle_contour_reverse(self) ==
  gsk_circle_contour_new(self.center, self.radius, self.end_angle, self.start_angle)

\* gsk_circle_contour_init_measure: no context (NULL); the length
\* DEG_TO_RAD (fabs (start_angle - end_angle)) * radius is length_pi * pi.
gsk_circle_contour_init_measure(self, tolerance) ==
  [klass |-> "Circle", tolerance |-> tolerance,
   length_pi |-> Q(Abs(self.start_angle - self.end_angle) * self.radius, 180)]

\* graphene_point_distance (point, &self->center) >= self->radius
circle_at_or_beyond_radius(self, point) ==
  QLe(QI(self.radius * self.radius), Dist2(point, self.center))

gsk_circle_contour_get_winding(self, point) ==
  IF circle_at_or_beyond_radius(self, point)
    THEN 0
    ELSE IF Abs(self.start_angle - self.end_angle) >= 360
           THEN -1
           ELSE LET mid_angle == (self.end_angle - self.start_angle) \div 2
                    start == GSK_CIRCLE_POINT_INIT(self, self.start_angle)
                    mid   == GSK_CIRCLE_POINT_INIT(self, mid_angle)
                    end   == GSK_CIRCLE_POINT_INIT(self, self.end_angle)
                    n     == [x |-> R2Sub(start.y, end.y), y |-> R2Sub(end.x, start.x)]
                    a     == R2Dot(mid, n)
                    b     == R2Dot(R2Pt(point), n)
                IN  IF (R2Sign(a) < 0) # (R2Sign(b) < 0) THEN -1 ELSE 0

\* The tolerances a measurement context is built with.
Tolerances == {Q(1, 2), QOne}

(***************************************************************************)
(* reverse.                                                                *)
(***************************************************************************)
\* The points of a visitor call that lie inside the array it points into.
CallPoints(c) ==
  [k \in 1..c.n |-> IF c.base + k <= Len(c.arr) THEN c.arr[c.base + k] ELSE [out_of_bounds |-> TRUE]]

\* add_reverse: the visitor of gsk_standard_contour_reverse
add_reverse(b, c) ==
  IF c.op = "MOVE"
    THEN b
    ELSE LET op == IF c.op = "CLOSE" THEN "LINE" ELSE c.op
             cv == gsk_curve_init_foreach(op, CallPoints(c), c.weight)
         IN  gsk_curve_builder_to(gsk_curve_reverse(cv), b)

\* for (int i = self->n_ops - 1; i >= 0; i--) gsk_pathop_foreach (self->ops[i], add_reverse, builder)
RECURSIVE gsk_standard_contour_reverse_from(_, _, _)
gsk_standard_contour_reverse_from(self, i, b) ==
  IF i < 1
    THEN b
    ELSE gsk_standard_contour_reverse_from(
           self, i - 1, add_reverse(b, gsk_pathop_foreach(self, i, {}, <<>>).calls[1]))

\* gsk_standard_contour_reverse; the path has one contour (g_assert)
gsk_standard_contour_reverse(self) ==
  LET b0 == gsk_path_builder_move_to(gsk_path_builder_new, self.points[Len(self.points)])
      b1 == gsk_standard_contour_reverse_from(self, Len(self.ops), b0)
      b2 == IF self.closed THEN gsk_path_builder_close(b1) ELSE b1
  IN  gsk_path_builder_free_to_path(b2)[1]

gsk_rect_contour_reverse(self) ==
  gsk_rect_contour_new(QAdd(self.x, self.width), self.y, QNeg(self.width), self.height)

gsk_rounded_rect_contour_reverse(self) == RoundedRectContour(self.rect, ~self.ccw)

\* gsk_contour_reverse: the dispatch through klass->reverse
gsk_contour_reverse(self) ==
  CASE self.klass = "Standard"    -> gsk_standard_contour_reverse(self)
    [] self.klass = "Rect"        -> gsk_rect_contour_reverse(self)
    [] self.klass = "RoundedRect" -> gsk_rounded_rect_contour_reverse(self)
    [] self.klass = "Circle"      -> gsk_circle_contour_reverse(self)

(***************************************************************************)
(* Specification SpecReverse: a caller reverses a contour, reverses the    *)
(* result, and traverses the contour and the result with a visitor that    *)
(* records what it is given.  An arc is traversed as one curve.            *)
(***************************************************************************)
\* What the visitor sees in a traversal to the end: the operations, their points and weights.
Visited(c) ==
  LET calls == gsk_contour_foreach(c, 1, {}).calls
  IN  [i \in 1..Len(calls) |->
         [op |-> calls[i].op, pts |-> CallPoints(calls[i]), weight |-> calls[i].weight]]

InitReverse ==
  /\ contour \in ForeachContours
  /\ other = NoContour
  /\ measure = NoMeasure
  /\ call = NoCall
  /\ out = NoOut

\* reverse of the contour, and then of the result
Reverse ==
  /\ call = NoCall \/ (call.name = "reverse" /\ call.n < 2)
  /\ other' = gsk_contour_reverse(IF other = NoContour THEN contour ELSE other)
  /\ call' = [name |-> "reverse", n |-> IF call = NoCall THEN 1 ELSE call.n + 1]
  /\ UNCHANGED <<contour, measure, out>>

ReverseForeach ==
  /\ call.name = "reverse"
  /\ call' = [name |-> "foreach", reversed |-> call.n]
  /\ out' = [calls |-> Visited(contour), other |-> Visited(other)]
  /\ UNCHANGED <<contour, other, measure>>

NextReverse == Reverse \/ ReverseForeach

SpecReverse == InitReverse /\ [][NextReverse]_vars

\* C3: for every variant, reverse(reverse(c)) yields a contour whose foreach
\* gives the operations and points of c: the same points in the same order.
C3_ReverseReverse ==
  (call.name = "foreach" /\ call.reversed = 2) => out.other = out.calls

(***************************************************************************)
(* Specification SpecRect: a caller measures a Rect contour and asks for   *)
(* the winding of a point.                                                 *)
(***************************************************************************)
\* The points of half-integer coordinates between lo and hi.
HalfGrid(lo, hi) == {Pt(Q(i, 2), Q(j, 2)) : i \in (2 * lo)..(2 * hi), j \in (2 * lo)..(2 * hi)}

RectQueryPoints == HalfGrid(-(MaxCoord + 1), MaxCoord + 2)

InitRect ==
  /\ contour \in RectContours
  /\ other = NoContour
  /\ measure = NoMeasure
  /\ call = NoCall
  /\ out = NoOut

RectInitMeasure(tolerance) ==
  /\ measure = NoMeasure
  /\ measure' = gsk_rect_contour_init_measure(contour, tolerance)
  /\ UNCHANGED <<contour, other, call, out>>

RectGetWinding(point) ==
  /\ measure # NoMeasure
  /\ call = NoCall
  /\ call' = [name |-> "get_winding", point |-> point]
  /\ out' = [ret |-> gsk_rect_contour_get_winding(contour, point)]
  /\ UNCHANGED <<contour, other, measure>>

NextRect ==
  \/ \E tolerance \in Tolerances : RectInitMeasure(tolerance)
  \/ \E point \in RectQueryPoints : RectGetWinding(point)

SpecRect == InitRect /\ [][NextRect]_vars

\* The extent of a rectangle along one axis, whatever the sign of its size.
RectLo(o, size) == QMin(o, QAdd(o, size))

RectHi(o, size) == IF QLt(size, QZero) THEN o ELSE QAdd(o, size)

StrictlyInsideRect(c, p) ==
  /\ QLt(RectLo(c.x, c.width), p.x) /\ QLt(p.x, RectHi(c.x, c.width))
  /\ QLt(RectLo(c.y, c.height), p.y) /\ QLt(p.y, RectHi(c.y, c.height))

StrictlyOutsideRect(c, p) ==
  \/ QLt(p.x, RectLo(c.x, c.width)) \/ QLt(RectHi(c.x, c.width), p.x)
  \/ QLt(p.y, RectLo(c.y, c.height)) \/ QLt(RectHi(c.y, c.height), p.y)

\* C5: for a Rect contour with width and height of either sign, get_winding
\* returns -1 for every point strictly inside the rectangle and 0 for every
\* point strictly outside it.
C5_RectWinding ==
  call.name = "get_winding" =>
    /\ StrictlyInsideRect(contour, call.point) => out.ret = -1
    /\ StrictlyOutsideRect(contour, call.point) => out.ret = 0

\* A point strictly inside a rectangle of negative width and height.
C5_Witness ==
  /\ call.name = "get_winding"
  /\ QLt(contour.width, QZero) /\ QLt(contour.height, QZero)
  /\ StrictlyInsideRect(contour, call.point)
  /\ out.ret = -1

(***************************************************************************)
(* Specification SpecCircle: a caller measures a Circle contour, may       *)
(* reverse it, and asks for the winding of a point, of the contour and     *)
(* then of its reverse.  The measurement context of a Circle is NULL, for  *)
(* the reverse as well.                                                    *)
(***************************************************************************)
CircleQueryPoints == {PtI(x, y) : x \in (-MaxCoord)..(MaxCoord + 1), y \in (-MaxCoord)..(MaxCoord + 1)}

InitCircle ==
  /\ contour \in CircleContours
  /\ other = NoContour
  /\ measure = NoMeasure
  /\ call = NoCall
  /\ out = NoOut

CircleInitMeasure(tolerance) ==
  /\ measure = NoMeasure
  /\ measure' = gsk_circle_contour_init_measure(contour, tolerance)
  /\ UNCHANGED <<contour, other, call, out>>

CircleReverse ==
  /\ other = NoContour
  /\ call = NoCall
  /\ other' = gsk_circle_contour_reverse(contour)
  /\ UNCHANGED <<contour, measure, call, out>>

CircleGetWinding(point) ==
  /\ measure # NoMeasure
  /\ call = NoCall
  /\ call' = [name |-> "get_winding", point |-> point]
  /\ out' = [ret |-> gsk_circle_contour_get_winding(contour, point)]
  /\ UNCHANGED <<contour, other, measure>>

\* The same point asked of the reverse.
CircleGetWindingOther ==
  /\ call.name = "get_winding"
  /\ other # NoContour
  /\ "other" \notin DOMAIN out
  /\ out' = [ret |-> out.ret, other |-> gsk_circle_contour_get_winding(other, call.point)]
  /\ UNCHANGED <<contour, other, measure, call>>

NextCircle ==
  \/ \E tolerance \in Tolerances : CircleInitMeasure(tolerance)
  \/ CircleReverse
  \/ \E point \in CircleQueryPoints : CircleGetWinding(point)
  \/ CircleGetWindingOther

SpecCircle == InitCircle /\ [][NextCircle]_vars

\* C7: for a full circle get_winding returns 0 at or beyond the radius and,
\* inside, -1 or +1 with the sign set by the direction of the arc: the
\* circle and its reverse give opposite signs for the same inside point.
C7_FullCircleWindingSign ==
  (call.name = "get_winding" /\ Abs(contour.start_angle - contour.end_angle) = 360) =>
    IF circle_at_or_beyond_radius(contour, call.point)
      THEN out.ret = 0
      ELSE /\ out.ret \in {-1, 1}
           /\ "other" \in DOMAIN out => out.other = -out.ret

\* The side of the chord through the start and the end of the arc that a
\* vector from the start of the chord points to: -1, 0 (on the chord) or 1.
ChordSide(self, p) ==
  LET start == GSK_CIRCLE_POINT_INIT(self, self.start_angle)
      end   == GSK_CIRCLE_POINT_INIT(self, self.end_angle)
      n     == [x |-> R2Sub(start.y, end.y), y |-> R2Sub(end.x, start.x)]
  IN  R2Sign(R2Dot([x |-> R2Sub(p.x, start.x), y |-> R2Sub(p.y, start.y)], n))

\* The midpoint of the arc: the point at the angle halfway between start_angle and end_angle.
ArcMidpoint(self) == GSK_CIRCLE_POINT_INIT(self, (self.start_angle + self.end_angle) \div 2)

\* C8: for an open arc and a point inside the radius, get_winding is
\* non-zero exactly when the point lies on the same side of the chord
\* through the start and the end of the arc as the midpoint of the arc.
C8_OpenArcWindingChordSide ==
  (/\ call.name = "get_winding"
   /\ Abs(contour.start_angle - contour.end_angle) < 360
   /\ ~circle_at_or_beyond_radius(contour, call.point)) =>
    (out.ret # 0 <=> (/\ ChordSide(contour, R2Pt(call.point)) # 0
                      /\ ChordSide(contour, R2Pt(call.point)) = ChordSide(contour, ArcMidpoint(contour))))

(***************************************************************************)
(* Specification SpecStandardPoint: a caller measures a Standard contour   *)
(* and asks for the point at a distance.                                   *)
(***************************************************************************)
\* Every piece of the contour has a rational length.
HasRationalLengths(c) ==
  \A i \in 2..Len(c.ops) :
    LET curve == gsk_curve_init(c, i)
    IN  QIsSquare(Dist2(gsk_curve_get_start_point(curve), gsk_curve_get_end_point(curve)))

PointContours ==
  {c \in StandardContours(GridOf(MaxCoord - 1), {PtI(0, 0)}, MaxSegs, TRUE) : HasRationalLengths(c)}

\* The distances asked: the multiples of 1/2 up to the length, and the length.
Distances(length) ==
  {d \in {Q(k, 2) : k \in 0..(2 * length.n)} : QLe(d, length)} \cup {length}

InitStandardPoint ==
  /\ contour \in PointContours
  /\ other = NoContour
  /\ measure = NoMeasure
  /\ call = NoCall
  /\ out = NoOut

StandardInitMeasure(tolerance) ==
  /\ measure = NoMeasure
  /\ measure' = gsk_standard_contour_init_measure(contour, tolerance)
  /\ UNCHANGED <<contour, other, call, out>>

StandardGetPoint(distance, direction) ==
  /\ measure # NoMeasure
  /\ call = NoCall
  /\ call' = [name |-> "get_point", distance |-> distance, direction |-> direction]
  /\ out' = gsk_standard_contour_get_point(contour, measure.array, distance, direction)
  /\ UNCHANGED <<contour, other, measure>>

NextStandardPoint ==
  \/ \E tolerance \in Tolerances : StandardInitMeasure(tolerance)
  \/ /\ measure # NoMeasure
     /\ \E distance \in Distances(measure.length) :
          \E direction \in {GSK_PATH_START, GSK_PATH_END} : StandardGetPoint(distance, direction)

SpecStandardPoint == InitStandardPoint /\ [][NextStandardPoint]_vars

\* C2: for a Standard contour and a measurement context built from it,
\* get_point at distance 0 returns the first stored point and get_point at
\* the total length returns the last stored point, for either direction.
C2_StandardGetPointEnds ==
  call.name = "get_point" =>
    /\ call.distance = QZero => out.pos = contour.points[1]
    /\ call.distance = measure.length => out.pos = contour.points[Len(contour.points)]

\* The point at distance 0 of a closed contour of at least three measured
\* pieces, asked with GSK_PATH_START (the lookup wraps to the last piece).
C2_Witness ==
  /\ call.name = "get_point"
  /\ contour.closed
  /\ Len(measure.array) >= 3
  /\ call.distance = QZero
  /\ call.direction = GSK_PATH_START
  /\ out.pos = contour.points[1]
  /\ measure.array[1].end_point # contour.points[1]

(***************************************************************************)
(* Standard: add_segment.  Places in ops count from 1: the C loop variable *)
(* i is the model's i minus one.                                           *)
(***************************************************************************)
\* The progress of an offset taken from the start of the contour instead of
\* the start of the entry.
standard_measure_progress_from_zero(measure_, offset) ==
  QAdd(measure_.start_progress,
       QMul(QSub(measure_.end_progress, measure_.start_progress),
            QDiv(offset, QSub(measure_.end, measure_.start))))

\* The progress in the originating operation of an offset inside an entry.
standard_measure_progress(measure_, offset) ==
  QAdd(measure_.start_progress,
       QMul(QSub(measure_.end_progress, measure_.start_progress),
            QDiv(QSub(offset, measure_.start), QSub(measure_.end, measure_.start))))

\* for (; i < limit; i++) gsk_path_builder_pathop_to (builder, self->ops[i])
RECURSIVE standard_add_whole_ops(_, _, _, _)
standard_add_whole_ops(self, b, i, limit) ==
  IF i >= limit
    THEN b
    ELSE standard_add_whole_ops(self, gsk_path_builder_pathop_to(b, self, i, self.ops[i].op), i + 1, limit)

\* The end of add_segment, from the loop over the whole operations on.
standard_add_segment_tail(self, b, array, i, er, end) ==
  LET n_ops == Len(self.ops)
      limit == IF er.found THEN array[er.index].op ELSE n_ops
      b1    == standard_add_whole_ops(self, b, i, limit)
      i1    == IF i >= limit THEN i ELSE limit
  IN  IF er.found
        THEN LET end_measure  == array[er.index]
                 end_progress == standard_measure_progress(end_measure, end)
                 curve        == gsk_curve_init(self, end_measure.op)
             IN  IF end_measure.reason = "SHORT"
                   THEN gsk_curve_builder_to(gsk_curve_split(curve, end_progress).left, b1)
                   ELSE gsk_path_builder_line_to(
                          gsk_curve_builder_to(gsk_curve_split(curve, end_measure.start_progress).left, b1),
                          gsk_standard_contour_measure_get_point_at(end_measure, end))
        ELSE IF i1 = n_ops
               THEN gsk_path_builder_pathop_to(b1, self, i1,
                                               IF self.ops[i1].op = "CLOSE" THEN "LINE" ELSE self.ops[i1].op)
               ELSE b1

\* The first partial operation on a curve, from the test whether start and
\* end lie in the same operation on.
standard_add_segment_head(self, b, array, start_index, start_progress, emit_move_to, er, end) ==
  LET start_measure == array[start_index]
      curve         == gsk_curve_init(self, start_measure.op)
      move(bb, cut) == IF emit_move_to THEN gsk_path_builder_move_to(bb, gsk_curve_get_start_point(cut)) ELSE bb
  IN  IF er.found /\ array[er.index].op = start_measure.op
        THEN LET end_measure  == array[er.index]
                 end_progress == standard_measure_progress(end_measure, end)
             IN  IF end_measure.reason = "SHORT"
                   THEN LET cut == gsk_curve_segment(curve, start_progress, end_progress)
                        IN  gsk_curve_builder_to(cut, move(b, cut))
                   ELSE LET cut == gsk_curve_segment(curve, start_progress, end_measure.start_progress)
                        IN  gsk_path_builder_line_to(
                              gsk_curve_builder_to(cut, move(b, cut)),
                              gsk_standard_contour_measure_get_point_at(end_measure, end))
        ELSE LET cut == gsk_curve_split(curve, start_progress).right
             IN  standard_add_segment_tail(self, gsk_curve_builder_to(cut, move(b, cut)), array,
                                           start_measure.op + 1, er, end)

\* gsk_standard_contour_add_segment: the builder after the call
gsk_standard_contour_add_segment(self, b, array, emit_move_to, start, end) ==
  LET er == g_array_binary_search(array, end)
  IN  IF QLt(QZero, start)
        THEN LET sr            == g_array_binary_search(array, start)
                 start_index   == IF sr.found THEN sr.index ELSE Len(array)
                 start_measure == array[start_index]
             IN  IF start_measure.reason = "STRAIGHT"
                   THEN LET p  == gsk_standard_contour_measure_get_point_at(start_measure, start)
                            b1 == IF emit_move_to THEN gsk_path_builder_move_to(b, p) ELSE b
                        IN  IF er.found /\ er.index = start_index
                              THEN gsk_path_builder_line_to(
                                     b1, gsk_standard_contour_measure_get_point_at(array[er.index], end))
                              ELSE LET b2 == gsk_path_builder_line_to(b1, start_measure.end_point)
                                   IN  IF start_index + 1 > Len(array)
                                         THEN b2
                                         ELSE standard_add_segment_head(
                                                self, b2, array, start_index + 1,
                                                array[start_index + 1].start_progress, FALSE, er, end)
                   ELSE standard_add_segment_head(self, b, array, start_index,
                                                  standard_measure_progress(start_measure, start),
                                                  emit_move_to, er, end)
        ELSE standard_add_segment_tail(self, b, array, IF emit_move_to THEN 1 ELSE 2, er, end)

(***************************************************************************)
(* Specification SpecStandardSegment: a caller measures a Standard contour *)
(* and has a part of it added to a new builder.                            *)
(***************************************************************************)
StandardAddSegment(emit_move_to, start, end) ==
  /\ measure # NoMeasure
  /\ call = NoCall
  /\ QLe(start, end)
  /\ QLt(QZero, start) => Len(measure.array) > 0
  /\ call' = [name |-> "add_segment", emit_move_to |-> emit_move_to, start |-> start, end |-> end]
  /\ out' = [path |-> gsk_path_builder_free_to_path(
                        gsk_standard_contour_add_segment(contour, gsk_path_builder_new, measure.array,
                                                         emit_move_to, start, end))]
  /\ UNCHANGED <<contour, other, measure>>

NextStandardSegment ==
  \/ \E tolerance \in Tolerances : StandardInitMeasure(tolerance)
  \/ /\ measure # NoMeasure
     /\ \E emit_move_to \in BOOLEAN :
          \E start \in Distances(measure.length) :
            \E end \in Distances(measure.length) : StandardAddSegment(emit_move_to, start, end)

SpecStandardSegment == InitStandardPoint /\ [][NextStandardSegment]_vars

\* C4: for a Standard contour, open or closed, add_segment with emit_move_to,
\* start = 0 and end = the total length emits the operations of the contour:
\* the same kinds with the same points in the same order, a trailing close
\* included.
C4_AddSegmentWhole ==
  (/\ call.name = "add_segment"
   /\ call.emit_move_to
   /\ call.start = QZero
   /\ call.end = measure.length) =>
    out.path = << contour >>

(***************************************************************************)
(* Standard: get_winding.                                                  *)
(***************************************************************************)
line_get_crossing(p, p1, p2) ==
  LET cross == QSub(QMul(QSub(p2.x, p1.x), QSub(p.y, p1.y)), QMul(QSub(p.x, p1.x), QSub(p2.y, p1.y)))
  IN  IF QLe(p1.y, p.y)
        THEN IF QLt(p.y, p2.y) /\ QLt(QZero, cross) THEN 1 ELSE 0
        ELSE IF QLe(p2.y, p.y) /\ QLt(cross, QZero) THEN -1 ELSE 0

\* last_point never moving on from the first point of the contour.
last_point_stuck(self, array, i) == self.points[1]

\* last_point at the start of round i of the loop over the entries: the first
\* point of the contour, then the end point of the entry before.
last_point_at(self, array, i) ==
  IF i = 1 THEN self.points[1] ELSE array[i - 1].end_point

RECURSIVE standard_winding_from(_, _, _, _)
standard_winding_from(self, array, point, i) ==
  IF i > Len(array)
    THEN line_get_crossing(point, last_point_at(self, array, i), self.points[1])
    ELSE line_get_crossing(point, last_point_at(self, array, i), array[i].end_point)
           + standard_winding_from(self, array, point, i + 1)

gsk_standard_contour_get_winding(self, array, point) ==
  IF Len(array) = 0 THEN 0 ELSE standard_winding_from(self, array, point, 1)

(***************************************************************************)
(* Specification SpecStandardWinding: a caller holds a closed Standard     *)
(* contour of lines and a second contour with the same edges that starts   *)
(* at another vertex, measures them, and asks both for the winding of a    *)
(* point.                                                                  *)
(***************************************************************************)
\* The commands that build the edges of a closed contour of lines, the
\* closing edge as a line to the first point.
EdgeCmds(c) == [i \in 1..(Len(c.ops) - 1) |-> [c |-> "L", to |-> c.points[c.ops[i + 1].pt + 1]]]

\* The contour with the same edges in the same cyclic order that starts at the end of edge j.
RotateStart(c, j) ==
  LET cmds == EdgeCmds(c)
  IN  BuildStandard(cmds[j].to, SubSeq(cmds, j + 1, Len(cmds)) \o SubSeq(cmds, 1, j), TRUE)

WindingContours ==
  {c \in StandardContours(GridOf(MaxCoord - 1), {PtI(0, 0)}, MaxSegs + 1, FALSE) :
     c.closed /\ HasRationalLengths(c)}

WindingQueryPoints ==
  {Pt(Q(i, 2), Q(j, 2)) : i \in (-1)..(2 * (MaxCoord - 1) + 1), j \in (-1)..(2 * (MaxCoord - 1) + 1)}

InitStandardWinding ==
  /\ contour \in WindingContours
  /\ other \in {RotateStart(contour, j) : j \in 1..(Len(contour.ops) - 2)}
  /\ measure = NoMeasure
  /\ call = NoCall
  /\ out = NoOut

StandardGetWinding(point) ==
  /\ measure # NoMeasure
  /\ call = NoCall
  /\ call' = [name |-> "get_winding", point |-> point]
  /\ out' = [ret |-> gsk_standard_contour_get_winding(contour, measure.array, point)]
  /\ UNCHANGED <<contour, other, measure>>

\* The second contour is measured at the same tolerance and asked for the same point.
StandardGetWindingOther ==
  /\ call.name = "get_winding"
  /\ "other" \notin DOMAIN out
  /\ out' = [ret |-> out.ret,
             other |-> gsk_standard_contour_get_winding(
                         other, gsk_standard_contour_init_measure(other, measure.tolerance).array,
                         call.point)]
  /\ UNCHANGED <<contour, other, measure, call>>

NextStandardWinding ==
  \/ \E tolerance \in Tolerances : StandardInitMeasure(tolerance)
  \/ \E point \in WindingQueryPoints : StandardGetWinding(point)
  \/ StandardGetWindingOther

SpecStandardWinding == InitStandardWinding /\ [][NextStandardWinding]_vars

\* C6: for a closed Standard contour, get_winding of a point does not depend
\* on the vertex the closed polyline starts at: the contour with the same
\* edges started at another vertex gives the same winding for every point.
C6_WindingStartInvariant ==
  (call.name = "get_winding" /\ "other" \in DOMAIN out) => out.other = out.ret

\* A point inside a square, with the same non-zero winding from two starts.
C6_Witness ==
  /\ call.name = "get_winding"
  /\ "other" \in DOMAIN out
  /\ other.points[1] # contour.points[1]
  /\ out.ret # 0
  /\ out.other = out.ret

(***************************************************************************)
(* Rounded-Rect: the measurement context and get_point.                    *)
(***************************************************************************)
\* pts[k] of a visitor call, k counted from 0 as in C.  A place beyond the
\* array the call points into holds whatever the memory there holds: garbage.
CallPoint(c, k, garbage) ==
  IF c.base + k + 1 <= Len(c.arr) THEN c.arr[c.base + k + 1] ELSE garbage

\* add_cb: the visitor of gsk_rounded_rect_contour_init_measure.  For a
\* conic it reads pts[3] of the three points it is given.
add_cb(b, c, garbage) ==
  CASE c.op = "MOVE"  -> gsk_path_builder_move_to(b, CallPoint(c, 0, garbage))
    [] c.op = "LINE"  -> gsk_path_builder_line_to(b, CallPoint(c, 1, garbage))
    [] c.op = "QUAD"  -> gsk_path_builder_quad_to(b, CallPoint(c, 1, garbage), CallPoint(c, 2, garbage))
    [] c.op = "CUBIC" -> gsk_path_builder_cubic_to(b, CallPoint(c, 1, garbage), CallPoint(c, 2, garbage),
                                                   CallPoint(c, 3, garbage))
    [] c.op = "CONIC" -> gsk_path_builder_conic_to(b, CallPoint(c, 1, garbage), CallPoint(c, 3, garbage),
                                                   c.weight)
    [] c.op = "CLOSE" -> gsk_path_builder_close(b)

RECURSIVE add_cb_calls(_, _, _, _)
add_cb_calls(b, calls, i, garbage) ==
  IF i > Len(calls) THEN b ELSE add_cb_calls(add_cb(b, calls[i], garbage), calls, i + 1, garbage)

\* The Standard contour that init_measure builds from the traversal.
rounded_rect_measure_contour(self, garbage) ==
  gsk_path_builder_free_to_path(
    add_cb_calls(gsk_path_builder_new, gsk_rounded_rect_contour_foreach(self, {}).calls, 1, garbage))[1]

\* gsk_rounded_rect_contour_init_measure: RoundedRectMeasureData and *out_length
gsk_rounded_rect_contour_init_measure(self, tolerance, garbage) ==
  LET c == rounded_rect_measure_contour(self, garbage)
      m == gsk_standard_contour_init_measure(c, tolerance)
  IN  [klass |-> "RoundedRect", tolerance |-> tolerance, contour |-> c, measure_data |-> m.array,
       length |-> m.length]

\* A float converted to GskPathDirection: the fraction is dropped.
FloatToDirection(f) == f.n \div f.d

\* gsk_rounded_rect_contour_get_point: the call passes direction where
\* gsk_standard_contour_get_point takes the distance, and distance where it
\* takes the direction.
gsk_rounded_rect_contour_get_point(self, data, distance, direction) ==
  gsk_standard_contour_get_point(data.contour, data.measure_data, QI(direction), FloatToDirection(distance))

(***************************************************************************)
(* Specification SpecRoundedRect: a caller measures a Rounded-Rect contour *)
(* and asks for the point at a distance; the same is then asked of the     *)
(* Standard contour inside the measurement context.                        *)
(***************************************************************************)
\* What the memory behind the points of a traversal may hold.
GarbagePoints == GridOf(1)

RoundedRectMeasurable(c, garbage) == HasRationalLengths(rounded_rect_measure_contour(c, garbage))

InitRoundedRect ==
  /\ contour \in {c \in RoundedRectContours : \E g \in GarbagePoints : RoundedRectMeasurable(c, g)}
  /\ other = NoContour
  /\ measure = NoMeasure
  /\ call = NoCall
  /\ out = NoOut

RoundedRectInitMeasure(tolerance, garbage) ==
  /\ measure = NoMeasure
  /\ RoundedRectMeasurable(contour, garbage)
  /\ measure' = gsk_rounded_rect_contour_init_measure(contour, tolerance, garbage)
  /\ UNCHANGED <<contour, other, call, out>>

RoundedRectGetPoint(distance, direction) ==
  /\ measure # NoMeasure
  /\ call = NoCall
  /\ call' = [name |-> "get_point", distance |-> distance, direction |-> direction]
  /\ out' = [ret |-> gsk_rounded_rect_contour_get_point(contour, measure, distance, direction)]
  /\ UNCHANGED <<contour, other, measure>>

\* The same distance and direction asked of the Standard contour of the context.
RoundedRectGetPointStandard ==
  /\ call.name = "get_point"
  /\ "other" \notin DOMAIN out
  /\ out' = [ret |-> out.ret,
             other |-> gsk_standard_contour_get_point(measure.contour, measure.measure_data,
                                                      call.distance, call.direction)]
  /\ UNCHANGED <<contour, other, measure, call>>

NextRoundedRect ==
  \/ \E tolerance \in Tolerances : \E garbage \in GarbagePoints : RoundedRectInitMeasure(tolerance, garbage)
  \/ /\ measure # NoMeasure
     /\ \E distance \in Distances(measure.length) :
          \E direction \in {GSK_PATH_START, GSK_PATH_END} : RoundedRectGetPoint(distance, direction)
  \/ RoundedRectGetPointStandard

SpecRoundedRect == InitRoundedRect /\ [][NextRoundedRect]_vars

\* C9: a Rounded-Rect contour forwards get_point unchanged to the Standard
\* contour its init_measure built: it returns the position and the tangent
\* that the Standard get_point returns on that contour for the same distance
\* and the same direction.
C9_RoundedRectForwardsGetPoint ==
  (call.name = "get_point" /\ "other" \in DOMAIN out) =>
    /\ out.ret.pos = out.other.pos
    /\ out.ret.tangent = out.other.tangent

(***************************************************************************)
(* get_closest_point.  A distance is carried by its square, a number of    *)
(* R2.  The threshold of the Standard contour, which the scan tightens to  *)
(* a distance minus the tolerance, is carried as sqrt(s) + k.  An output   *)
(* parameter that was not written holds Unwritten.                         *)
(***************************************************************************)
Unwritten == [unwritten |-> TRUE]

NoClosestPoint ==
  [ret |-> FALSE, out_distance2 |-> Unwritten, out_pos |-> Unwritten, out_offset |-> Unwritten,
   out_tangent |-> Unwritten]

ClosestPoint(distance2, pos, offset, tangent) ==
  [ret |-> TRUE, out_distance2 |-> distance2, out_pos |-> pos, out_offset |-> offset,
   out_tangent |-> tangent]

Threshold(s, k) == [s |-> s, k |-> k]

\* sqrt(a) <= sqrt(s) + k, for rationals a >= 0, s >= 0 and k
SqrtLe(a, s, k) ==
  IF QLe(QZero, k)
    THEN LET l == QSub(QSub(a, s), QMul(k, k))
         IN  QLe(l, QZero) \/ (s # QZero /\ QLe(QMul(l, l), QMul(QMul(QI(4), QMul(k, k)), s)))
    ELSE LET r == QSub(QSub(s, a), QMul(k, k))
         IN  QLe(QZero, r) /\ QLe(QMul(QMul(QI(4), QMul(k, k)), a), QMul(r, r))

\* gsk_find_point_on_line: *offset and *pos
gsk_find_point_on_line(a, b, p) ==
  LET nx == QSub(b.x, a.x)
      ny == QSub(b.y, a.y)
      t  == QDiv(QAdd(QMul(QSub(p.x, a.x), nx), QMul(QSub(p.y, a.y), ny)),
                 QAdd(QMul(nx, nx), QMul(ny, ny)))
  IN  IF QLe(t, QZero) THEN [offset |-> QZero, pos |-> a]
      ELSE IF QLe(QOne, t) THEN [offset |-> QOne, pos |-> b]
      ELSE [offset |-> t, pos |-> graphene_point_interpolate(a, b, t)]

\* const float step = 1/1024.f
step == Q(1, 1024)

\* progress, p, found_progress and dist of the refinement
standard_closest_candidate(point, progress, found_progress, p) ==
  [progress |-> progress, p |-> p, found_progress |-> found_progress, dist2 |-> Dist2(point, p)]

standard_closest_progress(measure_, progress) ==
  QAdd(measure_.start_progress,
       QMul(QSub(measure_.end_progress, measure_.start_progress), progress))

\* The guard of the first loop without its bound: the search may always go on.
standard_closest_may_step_always(progress, dir) == TRUE

\* while (progress + step < 1.0f), the loop towards larger progress
\* (dir = 1), and while (progress - step > 0.0f), the loop towards smaller
\* progress (dir = -1)
standard_closest_may_step(progress, dir) ==
  IF dir = 1 THEN QLt(QAdd(progress, step), QOne) ELSE QLt(QZero, QSub(progress, step))

\* test_progress, p2 and test_dist of an iteration
standard_closest_test(curve, measure_, point, st, dir) ==
  standard_closest_candidate(
    point, IF dir = 1 THEN QAdd(st.progress, step) ELSE QSub(st.progress, step),
    standard_closest_progress(measure_, IF dir = 1 THEN QAdd(st.progress, step)
                                                   ELSE QSub(st.progress, step)),
    gsk_curve_get_point(curve,
                        standard_closest_progress(measure_, IF dir = 1 THEN QAdd(st.progress, step)
                                                                       ELSE QSub(st.progress, step))))

\* if (test_dist > dist) break;
standard_closest_breaks(st, test) == QLt(st.dist2, test.dist2)

RECURSIVE standard_closest_climb(_, _, _, _, _)

\* if (test_dist > dist) break; otherwise the tested point is taken
standard_closest_climb_test(curve, measure_, point, st, dir, test) ==
  IF standard_closest_breaks(st, test) THEN st ELSE standard_closest_climb(curve, measure_, point, test, dir)

\* One of the two loops of the refinement: towards larger progress (dir = 1)
\* or smaller (dir = -1), as long as the distance does not grow.
standard_closest_climb(curve, measure_, point, st, dir) ==
  IF standard_closest_may_step(st.progress, dir)
    THEN standard_closest_climb_test(curve, measure_, point, st, dir,
                                     standard_closest_test(curve, measure_, point, st, dir))
    ELSE st

\* The point of the curve at the progress found on the line, refined by the
\* two loops.
standard_closest_refine(curve, measure_, point, progress) ==
  standard_closest_climb(
    curve, measure_, point,
    standard_closest_climb(
      curve, measure_, point,
      standard_closest_candidate(
        point, progress, standard_closest_progress(measure_, progress),
        gsk_curve_get_point(curve, standard_closest_progress(measure_, progress))),
      1),
    -1)

\* The refined distance accepted within the slack of the coarse test.
standard_closest_accepts_slack(dist2, threshold) ==
  SqrtLe(dist2, threshold.s, QAdd(threshold.k, QOne))

\* dist <= threshold, after the refinement
standard_closest_accepts(dist2, threshold) == SqrtLe(dist2, threshold.s, threshold.k)

\* if (tolerance >= dist) return TRUE;
standard_closest_returns(dist2, tolerance) == QLe(dist2, QMul(tolerance, tolerance))

\* The threshold taken down to the distance found, the tolerance not taken off.
standard_closest_tighten_to_dist(dist2, tolerance) == Threshold(dist2, QZero)

\* threshold = dist - tolerance;
standard_closest_tighten(dist2, tolerance) == Threshold(dist2, QNeg(tolerance))

RECURSIVE standard_closest_from(_, _, _, _, _, _, _, _)

\* The output parameters are written; the scan returns at once within the
\* tolerance, and goes on with the threshold dist - tolerance otherwise.
standard_closest_found(self, array, tolerance, point, i, measure_, dist2, written) ==
  IF standard_closest_returns(dist2, tolerance)
    THEN written
    ELSE standard_closest_from(self, array, tolerance, point, i + 1, measure_.end_point,
                               standard_closest_tighten(dist2, tolerance), written)

\* The accurate check of an entry that passed the coarse one; st is the
\* refined point.
standard_closest_check(self, array, tolerance, point, i, threshold, res, measure_, curve, st) ==
  IF standard_closest_accepts(st.dist2, threshold)
    THEN standard_closest_found(
           self, array, tolerance, point, i, measure_, st.dist2,
           ClosestPoint(R2Of(st.dist2), st.p,
                        QAdd(measure_.start, QMul(QSub(measure_.end, measure_.start), st.progress)),
                        gsk_curve_get_tangent(curve, st.found_progress)))
    ELSE standard_closest_from(self, array, tolerance, point, i + 1, measure_.end_point,
                               threshold, res)

\* One entry of the length table; f is the point found on its line.
standard_closest_entry(self, array, tolerance, point, i, threshold, res, measure_, f) ==
  IF ~SqrtLe(Dist2(point, f.pos), threshold.s, QAdd(threshold.k, QOne))
    THEN standard_closest_from(self, array, tolerance, point, i + 1, measure_.end_point,
                               threshold, res)
    ELSE standard_closest_check(
           self, array, tolerance, point, i, threshold, res, measure_,
           gsk_curve_init(self, measure_.op),
           standard_closest_refine(gsk_curve_init(self, measure_.op), measure_, point, f.offset))

\* The loop over the entries from entry i on; res is what was written so far.
standard_closest_from(self, array, tolerance, point, i, last_point, threshold, res) ==
  IF i > Len(array)
    THEN res
    ELSE standard_closest_entry(
           self, array, tolerance, point, i, threshold, res, array[i],
           gsk_find_point_on_line(last_point, array[i].end_point, point))

standard_closest_scan(self, array, tolerance, point, threshold) ==
  standard_closest_from(self, array, tolerance, point, 1, self.points[1],
                        Threshold(QZero, threshold), NoClosestPoint)

gsk_standard_contour_get_closest_point(self, array, tolerance, point, threshold) ==
  IF Len(array) = 0
    THEN LET dist2 == Dist2(self.points[1], point)
         IN  IF ~SqrtLe(dist2, QZero, threshold)
               THEN NoClosestPoint
               ELSE ClosestPoint(R2Of(dist2), self.points[1], QZero, Direction(QOne, QZero))
    ELSE standard_closest_scan(self, array, tolerance, point, threshold)

\* floorf, ceilf and roundf (halves away from zero) of a rational
Floor(q) == q.n \div q.d

Ceil(q) == -Floor(QNeg(q))

Round(q) == IF q.n >= 0 THEN Floor(QAdd(q, Q(1, 2))) ELSE -Floor(QAdd(QNeg(q), Q(1, 2)))

\* CLAMP (v, 0.f, 1.f)
Clamp01(v) == IF QLt(QOne, v) THEN QOne ELSE IF QLt(v, QZero) THEN QZero ELSE v

\* copysignf (1.0, v) of a value that is not -0
CopySign1(v) == IF v.n < 0 THEN QI(-1) ELSE QOne

\* The point of the unit square the query is moved to.
rect_closest_unit_point(self, point) ==
  LET tx0 == IF self.width.n # 0
               THEN Clamp01(QDiv(QSub(point.x, self.x), self.width)) ELSE QZero
      ty0 == IF self.height.n # 0
               THEN Clamp01(QDiv(QSub(point.y, self.y), self.height)) ELSE QZero
      diff == QSub(QMul(QMin(tx0, QSub(QOne, tx0)), QAbs(self.width)),
                   QMul(QMin(ty0, QSub(QOne, ty0)), QAbs(self.height)))
      t == IF QLt(QZero, tx0) /\ QLt(tx0, QOne) /\ QLt(QZero, ty0) /\ QLt(ty0, QOne)
             THEN IF QLt(diff, QZero) THEN Pt(QI(Ceil(QSub(tx0, Q(1, 2)))), ty0)
                  ELSE IF QLt(QZero, diff) THEN Pt(tx0, QI(Round(ty0)))
                  ELSE IF QLe(ty0, QSub(QOne, ty0)) THEN Pt(tx0, QZero)
                  ELSE IF QLe(QSub(QOne, tx0), tx0) THEN Pt(QOne, ty0)
                  ELSE Pt(tx0, QOne)
             ELSE Pt(tx0, ty0)
  IN  Pt(QAbs(t.x), QAbs(t.y))

rect_closest_offset(self, t) ==
  QAdd(QMul(IF t.x = QZero /\ (QLt(QZero, t.y) /\ self.width.n # 0) THEN QSub(QI(2), t.y) ELSE t.y,
            QAbs(self.height)),
       QMul(IF t.y = QOne \/ (QLt(QZero, t.y) /\ t.x = QZero) THEN QSub(QI(2), t.x) ELSE t.x,
            QAbs(self.width)))

rect_closest_tangent(self, t) ==
  IF t.y = QZero /\ QLt(t.x, QOne) THEN Pt(CopySign1(self.width), QZero)
  ELSE IF t.x = QZero THEN Pt(QZero, QNeg(CopySign1(self.height)))
  ELSE IF t.y = QOne THEN Pt(QNeg(CopySign1(self.width)), QZero)
  ELSE IF t.x = QOne THEN Pt(QZero, CopySign1(self.height))
  ELSE Unwritten

gsk_rect_contour_get_closest_point(self, measure_data, tolerance, point, threshold) ==
  LET t == rect_closest_unit_point(self, point)
      p == Pt(QAdd(self.x, QMul(t.x, self.width)), QAdd(self.y, QMul(t.y, self.height)))
      distance2 == Dist2(point, p)
  IN  IF ~SqrtLe(distance2, QZero, threshold)
        THEN NoClosestPoint
        ELSE ClosestPoint(R2Of(distance2), p, rect_closest_offset(self, t),
                          rect_closest_tangent(self, t))

\* gsk_circle_contour_get_point of a distance that is distance_pi * pi: the
\* angle start_angle + distance / length * delta as a rational, and pos and
\* tangent where the angle is a multiple of 45 degrees.
circle_get_point_angle(self, distance_pi) ==
  LET delta     == self.end_angle - self.start_angle
      length_pi == Q(self.radius * delta, 180)
  IN  QAdd(QI(self.start_angle), QMul(QDiv(distance_pi, length_pi), QI(delta)))

gsk_circle_contour_get_point(self, distance_pi) ==
  LET angle == circle_get_point_angle(self, distance_pi)
      p     == GSK_CIRCLE_POINT_INIT(self, angle.n)
      inv   == R2Of(Q(1, self.radius))
  IN  [pos |-> p,
       tangent |-> [x |-> R2Mul(R2Sub(p.y, R2Of(self.center.y)), inv),
                    y |-> R2Mul(R2Sub(R2Of(self.center.x), p.x), inv)]]

\* RAD_TO_DEG (atan2f (y, x)) where it is a multiple of 45 degrees
Atan2Deg(y, x) ==
  LET sx == Sign(x.n)
      sy == Sign(y.n)
  IN  CASE sy = 0 /\ sx >= 0 -> 0
        [] sy = 0 /\ sx < 0 -> 180
        [] sx = 0 -> 90 * sy
        [] sx > 0 -> 45 * sy
        [] sx < 0 -> 135 * sy

circle_closest_angle(self, point) ==
  LET a     == Atan2Deg(QSub(point.y, self.center.y), QSub(point.x, self.center.x))
      angle == IF a < 0 THEN a + 360 ELSE a
      d1    == Min(Abs(self.start_angle - angle), 360 - Abs(self.start_angle - angle))
      d2    == Min(Abs(self.end_angle - angle), 360 - Abs(self.end_angle - angle))
  IN  IF (self.start_angle <= angle /\ angle <= self.end_angle)
         \/ (self.end_angle <= angle /\ angle <= self.start_angle)
        THEN angle
        ELSE IF d1 < d2 THEN self.start_angle ELSE self.end_angle

\* offset / pi
circle_closest_offset_pi(self, point) ==
  Q(self.radius * 2 * (circle_closest_angle(self, point) - self.start_angle),
    self.end_angle - self.start_angle)

gsk_circle_contour_get_closest_point(self, measure_data, tolerance, point, threshold) ==
  IF ~SqrtLe(Dist2(point, self.center), QZero, QAdd(threshold, QI(self.radius)))
    THEN NoClosestPoint
    ELSE
      LET offset_pi == circle_closest_offset_pi(self, point)
          g         == gsk_circle_contour_get_point(self, offset_pi)
          dx        == R2Sub(g.pos.x, R2Of(point.x))
          dy        == R2Sub(g.pos.y, R2Of(point.y))
          distance2 == R2Add(R2Mul(dx, dx), R2Mul(dy, dy))
      IN  IF threshold.n < 0 \/ R2Lt(R2Of(QMul(threshold, threshold)), distance2)
            THEN NoClosestPoint
            ELSE ClosestPoint(distance2, g.pos, offset_pi, g.tangent)

gsk_rounded_rect_contour_get_closest_point(self, data, tolerance, point, threshold) ==
  gsk_standard_contour_get_closest_point(data.contour, data.measure_data, tolerance, point, threshold)

gsk_contour_init_measure(self, tolerance, garbage) ==
  CASE self.klass = "Standard" -> gsk_standard_contour_init_measure(self, tolerance)
    [] self.klass = "Rect" -> gsk_rect_contour_init_measure(self, tolerance)
    [] self.klass = "RoundedRect" -> gsk_rounded_rect_contour_init_measure(self, tolerance, garbage)
    [] self.klass = "Circle" -> gsk_circle_contour_init_measure(self, tolerance)

gsk_contour_get_closest_point(self, measure_data, tolerance, point, threshold) ==
  CASE self.klass = "Standard" ->
         gsk_standard_contour_get_closest_point(self, measure_data.array, tolerance, point, threshold)
    [] self.klass = "Rect" ->
         gsk_rect_contour_get_closest_point(self, measure_data, tolerance, point, threshold)
    [] self.klass = "RoundedRect" ->
         gsk_rounded_rect_contour_get_closest_point(self, measure_data, tolerance, point, threshold)
    [] self.klass = "Circle" ->
         gsk_circle_contour_get_closest_point(self, measure_data, tolerance, point, threshold)

(***************************************************************************)
(* SpecClosest: a contour of any variant is measured and asked for the     *)
(* closest point to a query point within a threshold, all four output      *)
(* parameters passed.                                                      *)
(***************************************************************************)
ClosestStandardContours ==
  {c \in StandardContours(GridOf(MaxCoord - 1), {PtI(0, 0)}, MaxSegs, FALSE) : HasRationalLengths(c)}

ClosestRectContours ==
  {gsk_rect_contour_new(QI(0), QI(1), QI(w), QI(h)) : w \in Sizes, h \in Sizes}

ClosestContours ==
  ClosestStandardContours \cup ClosestRectContours \cup CircleContours
    \cup {c \in RoundedRectContours : \E g \in GarbagePoints : RoundedRectMeasurable(c, g)}

ClosestQueryPoints == {PtI(x, y) : x \in (-1)..(MaxCoord + 1), y \in (-1)..(MaxCoord + 1)}

Thresholds == {QZero, Q(1, 2), QOne, QI(MaxCoord)}

\* The entries of the length table that pass the coarse test of the scan
\* are lines.
StandardClosestOnLines(self, array, point, threshold) ==
  \A i \in 1..Len(array) :
    LET last_point == IF i = 1 THEN self.points[1] ELSE array[i - 1].end_point
        f          == gsk_find_point_on_line(last_point, array[i].end_point, point)
    IN  SqrtLe(Dist2(point, f.pos), QZero, QAdd(threshold, QOne)) => array[i].reason = "STRAIGHT"

\* The query lies in one of the eight directions of the multiples of 45
\* degrees from the centre, and so does the point found.
CircleClosestOnOctants(self, point) ==
  LET dx    == QSub(point.x, self.center.x)
      dy    == QSub(point.y, self.center.y)
      angle == circle_get_point_angle(self, circle_closest_offset_pi(self, point))
  IN  /\ dx.n = 0 \/ dy.n = 0 \/ QAbs(dx) = QAbs(dy)
      /\ angle.d = 1 /\ angle.n % 45 = 0

ClosestComputable(self, measure_data, point, threshold) ==
  CASE self.klass = "Standard" -> StandardClosestOnLines(self, measure_data.array, point, threshold)
    [] self.klass = "RoundedRect" ->
         StandardClosestOnLines(measure_data.contour, measure_data.measure_data, point, threshold)
    [] self.klass = "Circle" -> CircleClosestOnOctants(self, point)
    [] OTHER -> TRUE

InitClosest ==
  /\ contour \in ClosestContours
  /\ other = NoContour
  /\ measure = NoMeasure
  /\ call = NoCall
  /\ out = NoOut

ClosestInitMeasure(tolerance, garbage) ==
  /\ measure = NoMeasure
  /\ contour.klass = "RoundedRect" => RoundedRectMeasurable(contour, garbage)
  /\ measure' = gsk_contour_init_measure(contour, tolerance, garbage)
  /\ UNCHANGED <<contour, other, call, out>>

GetClosestPoint(point, threshold) ==
  /\ measure # NoMeasure
  /\ call = NoCall
  /\ ClosestComputable(contour, measure, point, threshold)
  /\ call' = [name |-> "get_closest_point", point |-> point, threshold |-> threshold]
  /\ out' = gsk_contour_get_closest_point(contour, measure, measure.tolerance, point, threshold)
  /\ UNCHANGED <<contour, other, measure>>

NextClosest ==
  \/ \E tolerance \in Tolerances : \E garbage \in GarbagePoints : ClosestInitMeasure(tolerance, garbage)
  \/ \E point \in ClosestQueryPoints : \E threshold \in Thresholds : GetClosestPoint(point, threshold)

SpecClosest == InitClosest /\ [][NextClosest]_vars

IsWritten(v) == "unwritten" \notin DOMAIN v

\* distance <= threshold, the distance given by its square
DistanceWithin(distance2, threshold) ==
  threshold.n >= 0 /\ ~R2Lt(R2Of(QMul(threshold, threshold)), distance2)

\* C10: for every variant, get_closest_point returns true only with a
\* reported distance that is at most the threshold the caller passed, and
\* when it returns false none of the four output parameters was written.
C10_ClosestPointWithinThreshold ==
  call.name = "get_closest_point" =>
    /\ out.ret =>
         /\ IsWritten(out.out_distance2)
         /\ DistanceWithin(out.out_distance2, call.threshold)
    /\ ~out.ret =>
         /\ ~IsWritten(out.out_distance2)
         /\ ~IsWritten(out.out_pos)
         /\ ~IsWritten(out.out_offset)
         /\ ~IsWritten(out.out_tangent)

\* A Standard contour of two measured lines whose closest point is found at a
\* positive distance within the threshold.
C10_Witness ==
  /\ call.name = "get_closest_point"
  /\ contour.klass = "Standard"
  /\ Len(measure.array) = 2
  /\ out.ret
  /\ out.out_distance2 # R2Of(QZero)
  /\ DistanceWithin(out.out_distance2, call.threshold)

(***************************************************************************)
(* get_bounds.  The result is the return value and the rectangle written   *)
(* to *bounds (Unwritten where the function does not write it).            *)
(***************************************************************************)
rect_add_point(rect, point) ==
  LET rx == IF QLt(point.x, rect.x)
              THEN [rect EXCEPT !.width = QAdd(rect.width, QSub(rect.x, point.x)), !.x = point.x]
              ELSE IF QLt(QAdd(rect.x, rect.width), point.x)
                THEN [rect EXCEPT !.width = QSub(point.x, rect.x)]
                ELSE rect
  IN  IF QLt(point.y, rx.y)
        THEN [rx EXCEPT !.height = QAdd(rx.height, QSub(rx.y, point.y)), !.y = point.y]
        ELSE IF QLt(QAdd(rx.y, rx.height), point.y)
          THEN [rx EXCEPT !.height = QSub(point.y, rx.y)]
          ELSE rx

\* for (i = 1; i < self->n_points; i ++), the points numbered from 1 here
RECURSIVE standard_bounds_from(_, _, _)
standard_bounds_from(self, i, bounds) ==
  IF i > Len(self.points)
    THEN bounds
    ELSE standard_bounds_from(self, i + 1, rect_add_point(bounds, self.points[i]))

gsk_standard_contour_get_bounds(self) ==
  IF Len(self.points) = 0
    THEN [ret |-> FALSE, bounds |-> Unwritten]
    ELSE LET bounds == standard_bounds_from(
                         self, 2,
                         graphene_rect_init(self.points[1].x, self.points[1].y, QZero, QZero))
         IN  [ret |-> QLt(QZero, bounds.width) /\ QLt(QZero, bounds.height), bounds |-> bounds]

gsk_rect_contour_get_bounds(self) ==
  [ret |-> TRUE, bounds |-> graphene_rect_init(self.x, self.y, self.width, self.height)]

\* graphene_rect_init_from_rect (rect, &self->rect.bounds)
gsk_rounded_rect_contour_get_bounds(self) == [ret |-> TRUE, bounds |-> self.rect.bounds]

gsk_circle_contour_get_bounds(self) ==
  [ret |-> TRUE,
   bounds |-> graphene_rect_init(QSub(self.center.x, QI(self.radius)),
                                 QSub(self.center.y, QI(self.radius)),
                                 QI(2 * self.radius), QI(2 * self.radius))]

gsk_contour_get_bounds(self) ==
  CASE self.klass = "Standard" -> gsk_standard_contour_get_bounds(self)
    [] self.klass = "Rect" -> gsk_rect_contour_get_bounds(self)
    [] self.klass = "RoundedRect" -> gsk_rounded_rect_contour_get_bounds(self)
    [] self.klass = "Circle" -> gsk_circle_contour_get_bounds(self)

(***************************************************************************)
(* SpecBounds: a contour of any variant is asked for its bounds.  The      *)
(* Standard contours are lines and quadratic curves, and conics of a       *)
(* rational weight.                                                        *)
(***************************************************************************)
ConicWeights == {Q(1, 2), QI(3)}

BuildConic(start, p1, p2, weight, closed) ==
  LET b1 == gsk_path_builder_conic_to(gsk_path_builder_move_to(gsk_path_builder_new, start),
                                      p1, p2, weight)
      b2 == IF closed THEN gsk_path_builder_close(b1) ELSE b1
  IN  gsk_path_builder_free_to_path(b2)[1]

ConicContours ==
  {BuildConic(PtI(1, 1), p1, p2, w, closed) :
     p1 \in GridOf(MaxCoord), p2 \in GridOf(MaxCoord), w \in ConicWeights, closed \in BOOLEAN}

BoundsContours ==
  StandardContours(GridOf(MaxCoord - 1), {PtI(0, 0)}, MaxSegs, TRUE)
    \cup ConicContours
    \cup RectContours
    \cup RoundedRectContours
    \cup {gsk_circle_contour_new(PtI(cx, 0), r, a[1], a[2]) :
            cx \in 0..1, r \in 0..MaxCoord, a \in {<<0, 360>>, <<0, 90>>, <<180, 0>>}}

InitBounds ==
  /\ contour \in BoundsContours
  /\ other = NoContour
  /\ measure = NoMeasure
  /\ call = NoCall
  /\ out = NoOut

GetBounds ==
  /\ call = NoCall
  /\ call' = [name |-> "get_bounds"]
  /\ out' = gsk_contour_get_bounds(contour)
  /\ UNCHANGED <<contour, other, measure>>

NextBounds == GetBounds

SpecBounds == InitBounds /\ [][NextBounds]_vars

\* The control points of the operations: the points of each curve, without
\* the slot that holds the weight of a conic.
ControlPoints(self) ==
  UNION {{gsk_curve_init(self, i).pts[k] : k \in 1..Len(gsk_curve_init(self, i).pts)} :
           i \in 1..Len(self.ops)}

\* rect is the smallest axis-aligned rectangle that contains the points P
IsBoundingBox(rect, P) ==
  /\ \A q \in P : graphene_rect_contains_point(rect, q)
  /\ \E q \in P : q.x = rect.x
  /\ \E q \in P : q.x = QAdd(rect.x, rect.width)
  /\ \E q \in P : q.y = rect.y
  /\ \E q \in P : q.y = QAdd(rect.y, rect.height)

HasArea(rect) == QLt(QZero, rect.width) /\ QLt(QZero, rect.height)

\* C11: Standard get_bounds sets the bounds to the smallest axis-aligned
\* rectangle that contains every control point of the contour, and returns
\* true exactly when that rectangle has width > 0 and height > 0.
C11_StandardBoundsOfControlPoints ==
  (call.name = "get_bounds" /\ contour.klass = "Standard") =>
    /\ IsBoundingBox(out.bounds, ControlPoints(contour))
    /\ out.ret <=> HasArea(out.bounds)

\* C12: for every variant, get_bounds never returns true together with a
\* rectangle of zero (or negative) width or height; an extent without area
\* is reported by returning false.
C12_NoBoundsWithoutArea ==
  call.name = "get_bounds" => (out.ret => HasArea(out.bounds))

(***************************************************************************)
(* Measurement contexts as heap objects.  The heap objs maps an address to *)
(* the object stored there (FreeObj where nothing is allocated); a context *)
(* is the pointer init_measure returned (0 is NULL), kept by its caller in *)
(* a slot together with the tolerance it was built with.                   *)
(***************************************************************************)
FreeObj == [kind |-> "free"]

\* The lowest address that is not allocated.
g_malloc(objs) == CHOOSE a \in 1..Len(objs) : objs[a] = FreeObj /\ \A b \in 1..(a - 1) : objs[b] # FreeObj

\* g_array_new and the entries appended to it
standard_context_init_measure(objs, self, tolerance) ==
  LET a == g_malloc(objs)
  IN  [objs |-> [objs EXCEPT ![a] = [kind |-> "array",
                                     array |-> gsk_standard_contour_init_measure(self, tolerance).array]],
       data |-> a]

\* A release that frees the table of every context.
standard_context_free_every(objs, data) ==
  [a \in DOMAIN objs |-> IF objs[a].kind = "array" THEN FreeObj ELSE objs[a]]

\* g_array_free (data, TRUE)
standard_context_free_measure(objs, data) == [objs EXCEPT ![data] = FreeObj]

\* The path of the builder, the RoundedRectMeasureData and the array.
rounded_rect_context_init_measure(objs, self, tolerance, garbage) ==
  LET p  == g_malloc(objs)
      o1 == [objs EXCEPT ![p] = [kind |-> "path", contour |-> rounded_rect_measure_contour(self, garbage)]]
      d  == g_malloc(o1)
      o2 == [o1 EXCEPT ![d] = [kind |-> "data", path |-> p, contour |-> p, measure_data |-> 0]]
      m  == standard_context_init_measure(o2, o1[p].contour, tolerance)
  IN  [objs |-> [m.objs EXCEPT ![d].measure_data = m.data], data |-> d]

rounded_rect_context_free_measure(objs, data) ==
  LET o1 == standard_context_free_measure(objs, objs[data].measure_data)
  IN  [o1 EXCEPT ![objs[data].path] = FreeObj, ![data] = FreeObj]

\* gsk_contour_init_measure on the heap: the new heap and the pointer returned
context_init_measure(objs, self, tolerance, garbage) ==
  CASE self.klass = "Standard" -> standard_context_init_measure(objs, self, tolerance)
    [] self.klass = "RoundedRect" -> rounded_rect_context_init_measure(objs, self, tolerance, garbage)
    [] OTHER -> [objs |-> objs, data |-> 0]

\* gsk_contour_free_measure on the heap
context_free_measure(objs, self, data) ==
  CASE self.klass = "Standard" -> standard_context_free_measure(objs, data)
    [] self.klass = "RoundedRect" -> rounded_rect_context_free_measure(objs, data)
    [] OTHER -> objs

Dangling == [klass |-> "Dangling"]

IsKind(objs, a, kind) == a \in 1..Len(objs) /\ objs[a].kind = kind

\* What a query reads through the pointer data: the context as the
\* queries above take it, or Dangling where it reads freed memory.
context_measure(objs, self, tolerance, data) ==
  CASE self.klass = "Standard" ->
         IF IsKind(objs, data, "array")
           THEN LET array == objs[data].array
                IN  [klass |-> "Standard", tolerance |-> tolerance, array |-> array,
                     length |-> IF Len(array) = 0 THEN QZero ELSE array[Len(array)].end]
           ELSE Dangling
    [] self.klass = "RoundedRect" ->
         IF IsKind(objs, data, "data") /\ IsKind(objs, objs[data].contour, "path")
            /\ IsKind(objs, objs[data].measure_data, "array")
           THEN LET array == objs[objs[data].measure_data].array
                IN  [klass |-> "RoundedRect", tolerance |-> tolerance,
                     contour |-> objs[objs[data].contour].contour, measure_data |-> array,
                     length |-> IF Len(array) = 0 THEN QZero ELSE array[Len(array)].end]
           ELSE Dangling
    [] self.klass = "Rect" -> gsk_rect_contour_init_measure(self, tolerance)
    [] self.klass = "Circle" -> gsk_circle_contour_init_measure(self, tolerance)

(***************************************************************************)
(* SpecContexts: the callers of one contour hold up to MaxContexts         *)
(* contexts; they build them, query through them and release them in any   *)
(* order.  In this specification the variable measure holds the heap and   *)
(* the slots of the callers.                                               *)
(***************************************************************************)
MaxContexts == 2

ObjsPerContext == 3

NoContext == [state |-> "none"]

\* Standard contours of a quadratic curve (whose table depends on the
\* tolerance) and a line, open and closed, a Rounded-Rect, a Rect and a Circle.
ContextContours ==
  {BuildStandard(PtI(0, 0),
                 << [c |-> "Q", ctrl |-> PtI(0, 0), to |-> PtI(1, 0)], [c |-> "L", to |-> PtI(0, 0)] >>,
                 closed) : closed \in BOOLEAN}
    \cup {gsk_rounded_rect_contour_new(RoundedRect(0, 0, 4, 6, QSize(0, 0), QSize(0, 0), QSize(0, 0), QSize(0, 0)))}
    \cup {gsk_rect_contour_new(QI(0), QI(0), QI(2), QI(1))}
    \cup {gsk_circle_contour_new(PtI(0, 0), 1, 0, 360)}

\* The queries asked through a context m of the contour.
ContextQueries(self, m) ==
  IF self.klass \in {"Standard", "RoundedRect"}
    THEN {[name |-> "get_point", distance |-> Q(1, 2), direction |-> GSK_PATH_END],
          [name |-> "get_point", distance |-> QOne, direction |-> GSK_PATH_START]}
    ELSE {[name |-> "get_winding", point |-> q] : q \in {PtI(1, 0), PtI(3, 3)}}

Undefined == [undefined |-> TRUE]

\* The answer to a query; reading freed memory has no defined answer.
ContextAnswer(self, m, q) ==
  CASE m = Dangling -> Undefined
    [] self.klass = "Standard" ->
         gsk_standard_contour_get_point(self, m.array, q.distance, q.direction)
    [] self.klass = "RoundedRect" ->
         gsk_rounded_rect_contour_get_point(self, m, q.distance, q.direction)
    [] self.klass = "Rect" -> gsk_rect_contour_get_winding(self, q.point)
    [] self.klass = "Circle" -> gsk_circle_contour_get_winding(self, q.point)

SlotMeasure(c, ms, slot) ==
  context_measure(ms.objs, c, ms.ctx[slot].tolerance, ms.ctx[slot].data)

InitContexts ==
  /\ contour \in ContextContours
  /\ other = NoContour
  /\ measure = [objs |-> [a \in 1..(ObjsPerContext * MaxContexts) |-> FreeObj],
                ctx |-> [slot \in 1..MaxContexts |-> NoContext]]
  /\ call = NoCall
  /\ out = NoOut

\* What a Rounded-Rect reads behind the points of its last conic.
ContextGarbage(self) ==
  IF self.klass = "RoundedRect"
    THEN {g \in GarbagePoints : g.y = QZero /\ RoundedRectMeasurable(self, g)}
    ELSE {PtI(0, 0)}

ContextInitMeasure(slot, tolerance, garbage) ==
  /\ measure.ctx[slot] = NoContext
  /\ LET r == context_init_measure(measure.objs, contour, tolerance, garbage)
     IN  measure' = [objs |-> r.objs,
                     ctx |-> [measure.ctx EXCEPT
                                ![slot] = [state |-> "live", tolerance |-> tolerance, data |-> r.data]]]
  /\ call' = NoCall
  /\ out' = NoOut
  /\ UNCHANGED <<contour, other>>

ContextQuery(slot) ==
  /\ measure.ctx[slot] # NoContext
  /\ \E q \in ContextQueries(contour, SlotMeasure(contour, measure, slot)) :
       /\ call' = [name |-> "query", slot |-> slot, q |-> q]
       /\ out' = [ret |-> ContextAnswer(contour, SlotMeasure(contour, measure, slot), q)]
  /\ UNCHANGED <<contour, other, measure>>

ContextFreeMeasure(slot) ==
  /\ measure.ctx[slot] # NoContext
  /\ measure' = [objs |-> context_free_measure(measure.objs, contour, measure.ctx[slot].data),
                 ctx |-> [measure.ctx EXCEPT ![slot] = NoContext]]
  /\ call' = NoCall
  /\ out' = NoOut
  /\ UNCHANGED <<contour, other>>

NextContexts ==
  \/ \E slot \in 1..MaxContexts : \E tolerance \in Tolerances : \E garbage \in ContextGarbage(contour) :
       ContextInitMeasure(slot, tolerance, garbage)
  \/ \E slot \in 1..MaxContexts : ContextQuery(slot)
  \/ \E slot \in 1..MaxContexts : ContextFreeMeasure(slot)

SpecContexts == InitContexts /\ [][NextContexts]_vars

\* All that can be asked through the context of a slot, with the answers.
SlotAnswers(c, ms, slot) ==
  [q \in ContextQueries(c, SlotMeasure(c, ms, slot)) |->
     ContextAnswer(c, SlotMeasure(c, ms, slot), q)]

\* C13: in every interleaving of init_measure, queries and free_measure on
\* the contexts of one contour, a step leaves the contour as it is, and a
\* context that is live before and after the step (any but the one the step
\* builds or releases) keeps its pointer, reads the same context data and
\* gives the same answers, none of them from freed memory.
C13_ContextsIndependent ==
  [][/\ contour' = contour
     /\ \A slot \in 1..MaxContexts :
          (measure.ctx[slot] # NoContext /\ measure'.ctx[slot] # NoContext) =>
            /\ measure'.ctx[slot] = measure.ctx[slot]
            /\ SlotMeasure(contour', measure', slot) = SlotMeasure(contour, measure, slot)
            /\ SlotMeasure(contour', measure', slot) # Dangling
            /\ SlotAnswers(contour', measure', slot) = SlotAnswers(contour, measure, slot)]_vars

\* Two contexts were live, the one built first was released, and a query
\* through the other, of tolerance 1/2, is answered from its own table.
C13_Witness ==
  /\ call.name = "query"
  /\ call.slot = 2
  /\ measure.ctx[1] = NoContext
  /\ measure.ctx[2].data > 1
  /\ measure.ctx[2].tolerance = Q(1, 2)
  /\ contour.klass \in {"Standard", "RoundedRect"}
  /\ SlotMeasure(contour, measure, 2) # Dangling
  /\ out.ret # Undefined

(***************************************************************************)
(* copy.  A Standard contour in memory: its point buffer starts at the     *)
(* address points (counted in points), and every operation holds the       *)
(* address of its first point.                                             *)
(***************************************************************************)
\* The contour self of the model laid out with its point buffer at base.
StandardContourAt(self, base) ==
  [flags |-> [closed |-> self.closed],
   n_ops |-> Len(self.ops),
   n_points |-> Len(self.points),
   points |-> base,
   buffer |-> self.points,
   ops |-> [i \in 1..Len(self.ops) |->
              gsk_pathop_encode(self.ops[i].op, base + self.ops[i].pt - 1)]]

\* The operations copied with the offset left as it was passed.
standard_init_offset_kept(offset, self_points, points) == offset

\* offset += self->points - points
standard_init_offset(offset, self_points, points) == offset + (self_points - points)

\* gsk_standard_contour_init of the contour whose storage puts its point
\* buffer at self_points
gsk_standard_contour_init(self_points, flags, points, buffer, n_points, ops, n_ops, offset) ==
  [flags |-> flags,
   n_ops |-> n_ops,
   n_points |-> n_points,
   points |-> self_points,
   buffer |-> [k \in 1..n_points |-> buffer[k]],
   ops |-> [i \in 1..n_ops |->
              gsk_pathop_encode(ops[i].op,
                                ops[i].pt + standard_init_offset(offset, self_points, points))]]

\* gsk_standard_contour_copy into the storage dest, whose point buffer is
\* at dest_points
gsk_standard_contour_copy(self, dest_points) ==
  gsk_standard_contour_init(dest_points, self.flags, self.points, self.buffer, self.n_points,
                            self.ops, self.n_ops, 0)

(***************************************************************************)
(* SpecCopy: a Standard contour stored somewhere is copied into storage    *)
(* that does not overlap it.                                               *)
(***************************************************************************)
CopyContours == StandardContours(GridOf(MaxCoord - 1), {PtI(0, 0)}, MaxSegs, TRUE) \cup ConicContours

Addresses == {0, 16, 32}

\* The stored points [points, points + n_points) of two contours are apart.
BuffersApart(points1, n1, points2, n2) == points1 + n1 <= points2 \/ points2 + n2 <= points1

InitCopy ==
  /\ contour \in CopyContours
  /\ other = NoContour
  /\ measure = NoMeasure
  /\ call = NoCall
  /\ out = NoOut

Copy(src_points, dest_points) ==
  /\ call = NoCall
  /\ BuffersApart(src_points, Len(contour.points), dest_points, Len(contour.points))
  /\ call' = [name |-> "copy", src |-> StandardContourAt(contour, src_points)]
  /\ out' = gsk_standard_contour_copy(StandardContourAt(contour, src_points), dest_points)
  /\ UNCHANGED <<contour, other, measure>>

NextCopy == \E src_points \in Addresses : \E dest_points \in Addresses : Copy(src_points, dest_points)

SpecCopy == InitCopy /\ [][NextCopy]_vars

\* The number of buffer slots an operation refers to (a conic keeps its
\* weight in a slot of its own).
SlotsOf(op) == IF op = "CONIC" THEN 4 ELSE n_pts_of(op)

\* The first operation is a move, and every point an operation refers to
\* lies in the contour's own buffer.
DataModelInvariant(c) ==
  /\ c.n_points >= 1
  /\ c.n_ops >= 1
  /\ c.ops[1].op = "MOVE"
  /\ \A i \in 1..c.n_ops :
       /\ c.points <= c.ops[i].pt
       /\ c.ops[i].pt + SlotsOf(c.ops[i].op) <= c.points + c.n_points

\* C14: the copy of a Standard contour has the same flags, counts, point
\* values and operation kinds; each operation refers to the same point
\* index as in the source, in the copy's own buffer and never the source's;
\* so the data-model invariant of the source holds for the copy.
C14_CopyIsSelfContained ==
  call.name = "copy" =>
    /\ out.flags = call.src.flags
    /\ out.n_ops = call.src.n_ops
    /\ out.n_points = call.src.n_points
    /\ out.buffer = call.src.buffer
    /\ \A i \in 1..out.n_ops :
         /\ out.ops[i].op = call.src.ops[i].op
         /\ out.ops[i].pt - out.points = call.src.ops[i].pt - call.src.points
         /\ ~(call.src.points <= out.ops[i].pt /\ out.ops[i].pt < call.src.points + call.src.n_points)
    /\ DataModelInvariant(call.src) => DataModelInvariant(out)

\* A closed contour with a curve copied to a lower address than its source.
C14_Witness ==
  /\ call.name = "copy"
  /\ out.points < call.src.points
  /\ out.flags.closed
  /\ out.n_ops >= 3
  /\ DataModelInvariant(call.src)
  /\ DataModelInvariant(out)

(***************************************************************************)
(* SpecCirclePoint: a Circle is measured and asked for the point at a      *)
(* distance of 0, half or all of its length, given as a multiple of pi.    *)
(***************************************************************************)
gsk_circle_contour_get_start_end(self) ==
  [start |-> GSK_CIRCLE_POINT_INIT(self, self.start_angle),
   end |-> GSK_CIRCLE_POINT_INIT(self, self.end_angle)]

CircleGetPoint(distance_pi) ==
  /\ measure # NoMeasure
  /\ call = NoCall
  /\ call' = [name |-> "get_point", distance_pi |-> distance_pi]
  /\ out' = gsk_circle_contour_get_point(contour, distance_pi)
  /\ UNCHANGED <<contour, other, measure>>

NextCirclePoint ==
  \/ \E tolerance \in Tolerances : CircleInitMeasure(tolerance)
  \/ /\ measure # NoMeasure
     /\ \E k \in 0..2 : CircleGetPoint(QMul(measure.length_pi, Q(k, 2)))

SpecCirclePoint == InitCircle /\ [][NextCirclePoint]_vars

\* start_angle + (d / length) * (end_angle - start_angle), length being the
\* total of init_measure
CircleAngleAt(self, length_pi, distance_pi) ==
  QAdd(QI(self.start_angle),
       QMul(QDiv(distance_pi, length_pi), QI(self.end_angle - self.start_angle)))

\* C15: for every Circle, whichever angle is larger, get_point at a
\* distance d in [0, length] returns the point at the angle
\* start_angle + (d / length) * (end_angle - start_angle); get_point(0) is
\* the start point and get_point(length) the end point of get_start_end.
C15_CirclePointAtAngle ==
  call.name = "get_point" =>
    /\ out.pos = GSK_CIRCLE_POINT_INIT(
                   contour, CircleAngleAt(contour, measure.length_pi, call.distance_pi).n)
    /\ call.distance_pi = QZero => out.pos = gsk_circle_contour_get_start_end(contour).start
    /\ call.distance_pi = measure.length_pi => out.pos = gsk_circle_contour_get_start_end(contour).end

(***************************************************************************)
(* The length table of a Standard contour (SpecStandardPoint).             *)
(***************************************************************************)
\* No piece that the decomposition of the contour hands out has a length.
NoPieceHasLength(self, tolerance) ==
  \A i \in 2..Len(self.ops) :
    LET pieces == gsk_curve_decompose(gsk_curve_init(self, i), tolerance)
    IN  \A k \in 1..Len(pieces) : pieces[k].from = pieces[k].to

\* C16: in the length table that init_measure builds for a Standard contour
\* the first entry starts at 0, every entry starts where the entry before it
\* ends, every entry ends after its start, the operations named are the
\* operations after the move (C indices 1..n_ops-1, here 2..n_ops) in
\* non-decreasing order, and the last entry ends at the length reported; a
\* contour none of whose pieces has a positive length has an empty table and
\* the length 0.
C16_LengthTableShape ==
  measure # NoMeasure =>
    LET array == measure.array
        n     == Len(array)
    IN  /\ n > 0 => array[1].start = QZero
        /\ \A k \in 2..n : array[k].start = array[k - 1].end
        /\ \A k \in 1..n : QLt(array[k].start, array[k].end)
        /\ \A k \in 1..n : array[k].op \in 2..Len(contour.ops)
        /\ \A k \in 2..n : array[k - 1].op <= array[k].op
        /\ n > 0 => array[n].end = measure.length
        /\ n = 0 => measure.length = QZero
        /\ NoPieceHasLength(contour, measure.tolerance) <=> n = 0

\* A table of three entries or more in which one operation has two entries
\* (a quadratic curve cut in two) and another none (a piece of no length).
C16_Witness ==
  /\ measure # NoMeasure
  /\ Len(measure.array) >= 3
  /\ \E k \in 2..Len(measure.array) : measure.array[k].op = measure.array[k - 1].op
  /\ \E i \in 2..Len(contour.ops) : \A k \in 1..Len(measure.array) : measure.array[k].op # i
  /\ call.name = "get_point"

(***************************************************************************)
(* The entry that get_point evaluates (SpecStandardPoint).                 *)
(***************************************************************************)
\* The entry that holds distance (start <= distance < end), the last entry
\* where none does.
EntryHolding(array, distance) ==
  LET holding == {k \in 1..Len(array) : QLe(array[k].start, distance) /\ QLt(distance, array[k].end)}
  IN  IF holding = {} THEN Len(array) ELSE CHOOSE k \in holding : TRUE

\* The entry and the progress inside it at which a query is to be evaluated.
EntryToEvaluate(self, array, distance, direction) ==
  LET k          == EntryHolding(array, distance)
      approaches == distance = array[k].start /\ direction = GSK_PATH_START
  IN  IF approaches /\ k > 1 THEN [entry |-> k - 1, progress |-> QOne]
      ELSE IF approaches /\ k = 1 /\ self.closed THEN [entry |-> Len(array), progress |-> QOne]
      ELSE [entry |-> k,
            progress |-> QDiv(QSub(distance, array[k].start), QSub(array[k].end, array[k].start))]

\* What the evaluation of an entry at a progress inside it gives.
EvaluatedAt(self, array, e) ==
  LET m     == array[e.entry]
      t     == QAdd(m.start_progress, QMul(QSub(m.end_progress, m.start_progress), e.progress))
      curve == gsk_curve_init(self, m.op)
  IN  [pos |-> gsk_curve_get_point(curve, t), tangent |-> gsk_curve_get_tangent(curve, t),
       progress |-> t]

\* C17: get_point of a Standard contour at a distance that is the start of
\* the entry found, asked with the approaching direction (GSK_PATH_START),
\* gives position and tangent of the end (progress 1) of the entry before,
\* which for the first entry of a closed contour is the last entry; for the
\* first entry of an open contour, for the leaving direction and for a
\* distance inside an entry it gives those of the entry found.
C17_GetPointEntry ==
  (call.name = "get_point" /\ Len(measure.array) > 0) =>
    out = EvaluatedAt(contour, measure.array,
                      EntryToEvaluate(contour, measure.array, call.distance, call.direction))

\* A query at the start of a later entry with the approaching direction, at a
\* corner: the tangent returned is not the tangent of the entry found.
C17_Witness ==
  /\ call.name = "get_point"
  /\ Len(measure.array) > 1
  /\ call.direction = GSK_PATH_START
  /\ EntryHolding(measure.array, call.distance) > 1
  /\ call.distance = measure.array[EntryHolding(measure.array, call.distance)].start
  /\ out.tangent # EvaluatedAt(contour, measure.array,
                               [entry |-> EntryHolding(measure.array, call.distance),
                                progress |-> QZero]).tangent

(***************************************************************************)
(* Standard: get_curvature, and the progress that add_segment asserts.     *)
(***************************************************************************)
\* gsk_curve_get_curvature (&curve, progress, center): 0 on a line
gsk_curve_get_curvature(curve, t) ==
  IF curve.op \in {"LINE", "CLOSE"} THEN [curvature |-> 0] ELSE [curvature |-> curve, t |-> t]

\* gsk_standard_contour_get_curvature: the value returned and the progress
\* that the range assertion tests
gsk_standard_contour_get_curvature(self, array, distance) ==
  IF Len(array) = 0
    THEN [curvature |-> [curvature |-> 0], progress |-> QZero]
    ELSE LET r        == g_array_binary_search(array, distance)
             index    == IF r.found THEN r.index ELSE Len(array)
             progress == standard_measure_progress(array[index], distance)
         IN  [curvature |-> gsk_curve_get_curvature(gsk_curve_init(self, array[index].op), progress),
              progress |-> progress]

\* The head of gsk_standard_contour_add_segment: start_progress and
\* end_progress as the two range assertions test them
standard_add_segment_progress(array, start, end) ==
  LET sr == g_array_binary_search(array, start)
      er == g_array_binary_search(array, end)
  IN  [start_progress |-> IF QLt(QZero, start)
                            THEN standard_measure_progress(
                                   array[IF sr.found THEN sr.index ELSE Len(array)], start)
                            ELSE QZero,
       end_progress |-> IF er.found THEN standard_measure_progress(array[er.index], end) ELSE QOne]

(***************************************************************************)
(* Specification SpecStandardProgress: a caller measures a Standard        *)
(* contour and asks for a point, a curvature or a segment.                 *)
(***************************************************************************)
StandardGetCurvature(distance) ==
  /\ measure # NoMeasure
  /\ call = NoCall
  /\ call' = [name |-> "get_curvature", distance |-> distance]
  /\ out' = gsk_standard_contour_get_curvature(contour, measure.array, distance)
  /\ UNCHANGED <<contour, other, measure>>

StandardAddSegmentProgress(emit_move_to, start, end) ==
  /\ measure # NoMeasure
  /\ call = NoCall
  /\ QLe(start, end)
  /\ QLt(QZero, start) => Len(measure.array) > 0
  /\ call' = [name |-> "add_segment", emit_move_to |-> emit_move_to, start |-> start, end |-> end]
  /\ out' = [path |-> gsk_path_builder_free_to_path(
                        gsk_standard_contour_add_segment(contour, gsk_path_builder_new, measure.array,
                                                         emit_move_to, start, end)),
             asserted |-> standard_add_segment_progress(measure.array, start, end)]
  /\ UNCHANGED <<contour, other, measure>>

NextStandardProgress ==
  \/ \E tolerance \in Tolerances : StandardInitMeasure(tolerance)
  \/ /\ measure # NoMeasure
     /\ \E distance \in Distances(measure.length) :
          \E direction \in {GSK_PATH_START, GSK_PATH_END} : StandardGetPoint(distance, direction)
  \/ /\ measure # NoMeasure
     /\ \E distance \in Distances(measure.length) : StandardGetCurvature(distance)
  \/ /\ measure # NoMeasure
     /\ \E emit_move_to \in BOOLEAN :
          \E start \in Distances(measure.length) :
            \E end \in Distances(measure.length) : StandardAddSegmentProgress(emit_move_to, start, end)

SpecStandardProgress == InitStandardPoint /\ [][NextStandardProgress]_vars

InUnitRange(t) == QLe(QZero, t) /\ QLe(t, QOne)

\* C18: for a Standard contour with a length table that is not empty and a
\* distance, or start and end offsets, between 0 and the total length, the
\* progress inside the operation that get_point, get_curvature and
\* add_segment compute lies between 0 and 1, so that their range assertions
\* hold.
C18_ProgressInRange ==
  (call # NoCall /\ Len(measure.array) > 0) =>
    CASE call.name = "add_segment" ->
           InUnitRange(out.asserted.start_progress) /\ InUnitRange(out.asserted.end_progress)
      [] OTHER -> InUnitRange(out.progress)

\* A segment that starts inside the second half of a quadratic curve cut in
\* two and ends inside a later piece.
C18_Witness ==
  /\ call.name = "add_segment"
  /\ Len(measure.array) >= 3
  /\ QLt(call.start, call.end)
  /\ QLt(Q(1, 2), out.asserted.start_progress) /\ QLt(out.asserted.start_progress, QOne)
  /\ QLt(QZero, out.asserted.end_progress) /\ QLt(out.asserted.end_progress, QOne)
  /\ g_array_binary_search(measure.array, call.start).index
       < g_array_binary_search(measure.array, call.end).index

(***************************************************************************)
(* Specification SpecClimb: the refinement that get_closest_point of a     *)
(* Standard contour runs on an entry of the length table that passed the   *)
(* coarse test, one iteration of its two loops at a time.  call holds the  *)
(* locals of the function: the entry, the loop that runs (1 towards larger *)
(* progress, 2 towards smaller, 3 once both are left), progress, p,        *)
(* found_progress and dist, and the iterations the loop has made.          *)
(***************************************************************************)
\* A quadratic curve over the chord from (0, 0) to (1024, 0) whose points at
\* the progress k/1024 are (k(k-1)/1023, k(1024-k)/1023): it leaves (0, 0)
\* upwards, a unit of height in a step.  The contour runs it in either
\* direction.
ClimbQuad(reversed) ==
  IF reversed
    THEN BuildStandard(PtI(1024, 0),
                       << [c |-> "Q", ctrl |-> Pt(Q(-512, 1023), Q(524288, 1023)), to |-> PtI(0, 0)] >>,
                       FALSE)
    ELSE BuildStandard(PtI(0, 0),
                       << [c |-> "Q", ctrl |-> Pt(Q(-512, 1023), Q(524288, 1023)), to |-> PtI(1024, 0)] >>,
                       FALSE)

ClimbLines ==
  {BuildStandard(PtI(0, 0), << [c |-> "L", to |-> PtI(1, 0)], [c |-> "L", to |-> PtI(1, 1)] >>, FALSE),
   BuildStandard(PtI(0, 0), << [c |-> "L", to |-> PtI(1, 0)], [c |-> "L", to |-> PtI(0, 0)] >>, TRUE)}

ClimbContours == {ClimbQuad(FALSE), ClimbQuad(TRUE)} \cup ClimbLines

\* Tolerances at which the curve above is measured as one piece.
ClimbTolerances == {QI(2), QI(1024)}

ClimbQueryPoints == {Pt(QI(x), Q(y, 2)) : x \in {-1, 0, 2}, y \in 0..8}

ClimbThresholds == {QOne, QI(4)}

InitClimb ==
  /\ contour \in ClimbContours
  /\ other = NoContour
  /\ measure = NoMeasure
  /\ call = NoCall
  /\ out = NoOut

ClimbLastPoint(i) == IF i = 1 THEN contour.points[1] ELSE measure.array[i - 1].end_point

\* The refinement of entry i is entered: the entry passed the coarse test,
\* and progress, p, found_progress and dist are those of the point found on
\* its line.
ClosestEnter(point, threshold, i) ==
  /\ measure # NoMeasure
  /\ call = NoCall
  /\ LET f == gsk_find_point_on_line(ClimbLastPoint(i), measure.array[i].end_point, point)
     IN  /\ SqrtLe(Dist2(point, f.pos), QZero, QAdd(threshold, QOne))
         /\ call' = [name |-> "get_closest_point", point |-> point, threshold |-> threshold,
                     i |-> i, loop |-> 1, steps |-> 0, first |-> f.offset,
                     st |-> standard_closest_candidate(
                              point, f.offset, standard_closest_progress(measure.array[i], f.offset),
                              gsk_curve_get_point(gsk_curve_init(contour, measure.array[i].op),
                                                  standard_closest_progress(measure.array[i], f.offset)))]
  /\ UNCHANGED <<contour, other, measure, out>>

\* The loop left: the loop towards smaller progress follows the loop towards
\* larger progress; after it comes the accurate check of the entry, which
\* writes the output parameters.
ClosestLeave(loop) ==
  IF loop = 1
    THEN /\ call' = [call EXCEPT !.loop = 2, !.steps = 0]
         /\ out' = out
    ELSE /\ call' = [call EXCEPT !.loop = 3]
         /\ out' = IF standard_closest_accepts(call.st.dist2, Threshold(QZero, call.threshold))
                     THEN ClosestPoint(
                            R2Of(call.st.dist2), call.st.p,
                            QAdd(measure.array[call.i].start,
                                 QMul(QSub(measure.array[call.i].end, measure.array[call.i].start),
                                      call.st.progress)),
                            gsk_curve_get_tangent(gsk_curve_init(contour, measure.array[call.i].op),
                                                  call.st.found_progress))
                     ELSE NoClosestPoint

\* An iteration of the loop in direction dir on the tested point: the loop
\* breaks, or takes the tested point and goes on.
ClosestIterate(loop, test) ==
  IF standard_closest_breaks(call.st, test)
    THEN ClosestLeave(loop)
    ELSE /\ call' = [call EXCEPT !.st = test, !.steps = @ + 1]
         /\ out' = out

\* The test of the loop condition and, where it holds, an iteration.
ClosestLoop(loop, dir) ==
  /\ call.name = "get_closest_point"
  /\ call.loop = loop
  /\ IF standard_closest_may_step(call.st.progress, dir)
       THEN ClosestIterate(loop,
                           standard_closest_test(gsk_curve_init(contour, measure.array[call.i].op),
                                                 measure.array[call.i], call.point, call.st, dir))
       ELSE ClosestLeave(loop)
  /\ UNCHANGED <<contour, other, measure>>

ClosestLarger == ClosestLoop(1, 1)

ClosestSmaller == ClosestLoop(2, -1)

ClimbInitMeasure(tolerance) ==
  /\ measure = NoMeasure
  /\ measure' = gsk_standard_contour_init_measure(contour, tolerance)
  /\ UNCHANGED <<contour, other, call, out>>

NextClimb ==
  \/ \E tolerance \in ClimbTolerances : ClimbInitMeasure(tolerance)
  \/ /\ measure # NoMeasure
     /\ \E point \in ClimbQueryPoints : \E threshold \in ClimbThresholds :
          \E i \in 1..Len(measure.array) : ClosestEnter(point, threshold, i)
  \/ ClosestLarger
  \/ ClosestSmaller

SpecClimb == InitClimb /\ [][NextClimb]_vars

\* An iteration took the tested point.
ClimbMoved ==
  /\ call.name = "get_closest_point"
  /\ call'.name = "get_closest_point"
  /\ call'.st.progress # call.st.progress

\* C19: in the refinement of get_closest_point of a Standard contour the
\* search moves a step of 1/1024 in a direction only to a point whose
\* distance to the query point is strictly smaller than the distance of the
\* best point so far; a tested point at the same distance ends the search
\* in that direction.
C19_MovesOnlyWhenCloser ==
  [][ClimbMoved => QLt(call'.st.dist2, call.st.dist2)]_vars

\* A step of the refinement is an iteration that takes the tested point, or
\* the end of the loop that runs.
ClimbAdvances ==
  \/ call'.loop = call.loop /\ call'.steps = call.steps + 1
  \/ call'.loop = call.loop + 1

\* C20: for every entry of the length table, each of the two loops of the
\* refinement of get_closest_point makes at most 1024 steps and keeps the
\* progress inside the entry between 0 and 1; every step of the refinement
\* counts a step of a loop or ends the loop, so that the refinement, and
\* with it get_closest_point, comes to its end.
C20_ClimbBoundedAndEnds ==
  /\ [](call.name = "get_closest_point" =>
          (call.loop \in 1..3 /\ call.steps \in 0..1024 /\ InUnitRange(call.st.progress)))
  /\ [][call.name = "get_closest_point" => ClimbAdvances]_vars

\* The loop towards smaller progress made three steps or more from the end
\* of the entry, and the refinement is over with a point accepted.
C20_Witness ==
  /\ call.name = "get_closest_point"
  /\ call.loop = 3
  /\ call.steps >= 3
  /\ call.first = QOne
  /\ out.ret

(***************************************************************************)
(* Specification SpecScan: the scan of get_closest_point of a Standard     *)
(* contour over the entries of the length table, one entry at a step.      *)
(* call holds the locals of the function: i, the entry examined next,      *)
(* last_point, the threshold in force, and whether the function has        *)
(* returned; for the record it holds the number of matches accepted and    *)
(* the squared distances of the last two.  out holds the output            *)
(* parameters and the result.                                              *)
(***************************************************************************)
NoMatch == [accepted |-> FALSE]

\* The accurate check of the refined point st of an entry.
standard_closest_match_of(measure_, curve, threshold, st) ==
  IF standard_closest_accepts(st.dist2, threshold)
    THEN [accepted |-> TRUE, dist2 |-> st.dist2,
          written |-> ClosestPoint(
                        R2Of(st.dist2), st.p,
                        QAdd(measure_.start, QMul(QSub(measure_.end, measure_.start), st.progress)),
                        gsk_curve_get_tangent(curve, st.found_progress))]
    ELSE NoMatch

\* The body of the loop for one entry, f being the point found on its line:
\* the coarse test, the refinement and the accurate check.
standard_closest_match_on(self, measure_, point, threshold, f) ==
  IF ~SqrtLe(Dist2(point, f.pos), threshold.s, QAdd(threshold.k, QOne))
    THEN NoMatch
    ELSE standard_closest_match_of(
           measure_, gsk_curve_init(self, measure_.op), threshold,
           standard_closest_refine(gsk_curve_init(self, measure_.op), measure_, point, f.offset))

standard_closest_match(self, measure_, point, threshold, last_point) ==
  standard_closest_match_on(self, measure_, point, threshold,
                            gsk_find_point_on_line(last_point, measure_.end_point, point))

ScanContours == ClosestStandardContours

InitScan ==
  /\ contour \in ScanContours
  /\ other = NoContour
  /\ measure = NoMeasure
  /\ call = NoCall
  /\ out = NoOut

ScanInitMeasure(tolerance) ==
  /\ measure = NoMeasure
  /\ measure' = gsk_standard_contour_init_measure(contour, tolerance)
  /\ UNCHANGED <<contour, other, call, out>>

\* The call up to the loop: the contour of a single point is answered at
\* once.
ScanBegin(point, threshold) ==
  /\ measure # NoMeasure
  /\ call = NoCall
  /\ call' = [name |-> "get_closest_point", point |-> point, caller_threshold |-> threshold,
              i |-> 1, last_point |-> contour.points[1], threshold |-> Threshold(QZero, threshold),
              returned |-> Len(measure.array) = 0, examined |-> 0, accepted |-> 0,
              dist2 |-> QZero, previous_dist2 |-> QZero]
  /\ out' = IF Len(measure.array) = 0
              THEN gsk_standard_contour_get_closest_point(contour, measure.array, measure.tolerance,
                                                          point, threshold)
              ELSE NoClosestPoint
  /\ UNCHANGED <<contour, other, measure>>

\* The entry examined gave the match m.
ScanTake(m) ==
  IF m.accepted
    THEN /\ out' = m.written
         /\ call' = [call EXCEPT !.i = @ + 1, !.examined = @ + 1,
                                 !.last_point = measure.array[call.i].end_point,
                                 !.accepted = @ + 1, !.previous_dist2 = call.dist2,
                                 !.dist2 = m.dist2,
                                 !.returned = standard_closest_returns(m.dist2, measure.tolerance),
                                 !.threshold = IF standard_closest_returns(m.dist2, measure.tolerance)
                                                 THEN @
                                                 ELSE standard_closest_tighten(m.dist2, measure.tolerance)]
    ELSE /\ out' = out
         /\ call' = [call EXCEPT !.i = @ + 1, !.examined = @ + 1,
                                 !.last_point = measure.array[call.i].end_point]

\* One turn of the loop over the entries.
ScanEntry ==
  /\ call.name = "get_closest_point"
  /\ ~call.returned
  /\ call.i <= Len(measure.array)
  /\ ScanTake(standard_closest_match(contour, measure.array[call.i], call.point, call.threshold,
                                     call.last_point))
  /\ UNCHANGED <<contour, other, measure>>

\* return result, after the last entry
ScanEnd ==
  /\ call.name = "get_closest_point"
  /\ ~call.returned
  /\ call.i > Len(measure.array)
  /\ call' = [call EXCEPT !.returned = TRUE]
  /\ UNCHANGED <<contour, other, measure, out>>

NextScan ==
  \/ \E tolerance \in Tolerances : ScanInitMeasure(tolerance)
  \/ \E point \in ClosestQueryPoints : \E threshold \in Thresholds : ScanBegin(point, threshold)
  \/ ScanEntry
  \/ ScanEnd

SpecScan == InitScan /\ [][NextScan]_vars

\* A turn of the loop accepted a match.
ScanAccepted ==
  /\ call.name = "get_closest_point"
  /\ call'.name = "get_closest_point"
  /\ call'.accepted = call.accepted + 1

\* C21: while get_closest_point of a Standard contour scans the entries of
\* the table in order, every match accepted has a distance of at most the
\* threshold in force; after a match at a distance d above the tolerance the
\* threshold is d - tolerance, so that every later match is closer than the
\* one before it by the tolerance at least; once a match within the
\* tolerance is accepted no further entry is examined; and the outputs are
\* those of the match accepted last.
C21_ScanTightens ==
  /\ [][ScanAccepted =>
          /\ SqrtLe(call'.dist2, call.threshold.s, call.threshold.k)
          /\ call.accepted > 0 => SqrtLe(call'.dist2, call.dist2, QNeg(measure.tolerance))
          /\ IF QLe(call'.dist2, QMul(measure.tolerance, measure.tolerance))
               THEN call'.returned
               ELSE /\ ~call'.returned
                    /\ call'.threshold = Threshold(call'.dist2, QNeg(measure.tolerance))
          /\ out'.ret /\ out'.out_distance2 = R2Of(call'.dist2)]_vars
  /\ [][(call.name = "get_closest_point" /\ call.returned) => UNCHANGED <<call, out>>]_vars
  /\ [][(call.name = "get_closest_point" /\ ~ScanAccepted) => out' = out]_vars
  /\ [](call.name = "get_closest_point" => (out.ret <=> call.accepted > 0 \/ (Len(measure.array) = 0 /\ out.ret)))

\* The scan accepted a second match, closer than the first, and went on.
C21_Witness ==
  /\ call.name = "get_closest_point"
  /\ call.accepted = 2
  /\ QLt(call.dist2, call.previous_dist2)
  /\ ~QLe(call.dist2, QMul(measure.tolerance, measure.tolerance))
  /\ call.examined = Len(measure.array)
  /\ call.returned

(***************************************************************************)
(* Standard: add_segment between two different operations.                 *)
(***************************************************************************)
\* The contours of three segments on the unit square: an operation to start
\* in, an operation between, an operation to end in, and an optional close.
AcrossContours ==
  {c \in {BuildStandard(PtI(0, 0), cmds, closed) :
            cmds \in PathsFrom(GridOf(1), PtI(0, 0), 3, TRUE), closed \in BOOLEAN} :
     HasRationalLengths(c)}

InitAcross ==
  /\ contour \in AcrossContours
  /\ other = NoContour
  /\ measure = NoMeasure
  /\ call = NoCall
  /\ out = NoOut

SpecAcross == InitAcross /\ [][NextStandardSegment]_vars

\* The operations a contour draws after its move, each as the curve from the
\* current point that gsk_curve_init reads.
DrawnOps(c) == [k \in 1..(Len(c.ops) - 1) |-> gsk_curve_init(c, k + 1)]

\* The operation of the entry that holds an offset; 0 when no entry does.
OpHolding(array, offset) ==
  LET r == g_array_binary_search(array, offset)
  IN  IF r.found THEN array[r.index].op ELSE 0

\* The position of an offset on the contour.
PositionAt(offset) == gsk_standard_contour_get_point(contour, measure.array, offset, GSK_PATH_END).pos

\* A call of add_segment with 0 < start and end < length in two different operations.
AcrossOperations ==
  /\ call.name = "add_segment"
  /\ QLt(QZero, call.start)
  /\ QLt(call.end, measure.length)
  /\ OpHolding(measure.array, call.start) # 0
  /\ OpHolding(measure.array, call.end) # 0
  /\ OpHolding(measure.array, call.start) # OpHolding(measure.array, call.end)

\* The drawn operations e are: a operations from the start position to the
\* end of the operation first, the operations first + 1 .. last - 1 of the
\* contour as they are, then operations from the start of the operation last
\* to the end position.
SplitsAcross(e, a, first, last) ==
  /\ Len(e) >= a + (last - first - 1) + 1
  /\ Len(e) <= a + (last - first - 1) + 2
  /\ call.emit_move_to => gsk_curve_get_start_point(e[1]) = PositionAt(call.start)
  /\ \A k \in 1..a : e[k].op \in {"LINE", gsk_curve_init(contour, first).op}
  /\ gsk_curve_get_end_point(e[a]) = gsk_curve_get_end_point(gsk_curve_init(contour, first))
  /\ \A j \in 1..(last - first - 1) : e[a + j] = gsk_curve_init(contour, first + j)
  /\ \A k \in (a + (last - first - 1) + 1)..Len(e) : e[k].op \in {"LINE", gsk_curve_init(contour, last).op}
  /\ gsk_curve_get_start_point(e[a + (last - first - 1) + 1])
       = gsk_curve_get_start_point(gsk_curve_init(contour, last))
  /\ gsk_curve_get_end_point(e[Len(e)]) = PositionAt(call.end)

\* C22: when start > 0 and end < total length fall in two different
\* operations of a Standard contour, add_segment emits one run of operations:
\* the part of the start operation from the start position to the end of
\* that operation, then every operation strictly between the two, unchanged
\* and once, then the part of the end operation from its start to the end
\* position, and nothing else.
C22_AddSegmentAcrossOperations ==
  AcrossOperations =>
    /\ Len(out.path) = 1
    /\ \E a \in 1..2 :
         SplitsAcross(DrawnOps(out.path[1]), a,
                      OpHolding(measure.array, call.start), OpHolding(measure.array, call.end))

(***************************************************************************)
(* Standard: add_segment of a part of a closed contour.                    *)
(***************************************************************************)
\* The operation add_segment starts in: the operation of the entry holding
\* start, or of the last entry when no entry holds it.
StartOp(array, start) ==
  IF g_array_binary_search(array, start).found THEN OpHolding(array, start) ELSE array[Len(array)].op

\* A call of add_segment on a closed contour for less than the whole contour.
PartOfClosed ==
  /\ call.name = "add_segment"
  /\ contour.closed
  /\ QLt(QZero, call.start) \/ QLt(call.end, measure.length)

\* No contour of the path is closed or holds a close operation.
HasNoClose(path) ==
  \A k \in 1..Len(path) :
    /\ ~path[k].closed
    /\ \A j \in 1..Len(path[k].ops) : path[k].ops[j].op # "CLOSE"

\* The last drawn operation of c stands for the close of the contour from
\* the start position on: a line to the first point of the contour, from the
\* start of the close or, when start lies in the close, from the start
\* position (the point the caller's builder stands at without emit_move_to).
EndsWithCloseAsLine(c) ==
  LET e     == DrawnOps(c)
      close == gsk_curve_init(contour, Len(contour.ops))
      last  == e[Len(e)]
  IN  /\ Len(e) >= 1
      /\ last.op = "LINE"
      /\ gsk_curve_get_end_point(last) = contour.points[1]
      /\ (call.emit_move_to \/ Len(e) >= 2) =>
           gsk_curve_get_start_point(last)
             = IF StartOp(measure.array, call.start) = Len(contour.ops)
                 THEN PositionAt(call.start)
                 ELSE gsk_curve_get_start_point(close)

\* C23: whenever add_segment emits a part of a closed Standard contour
\* (start > 0 or end < total length), the emitted path holds no close
\* operation, and when the part reaches the end of the contour, and so
\* includes the trailing close, the close is emitted as a line to the first
\* point of the contour.
C23_PartialCloseAsLine ==
  PartOfClosed =>
    /\ HasNoClose(out.path)
    /\ QLe(measure.length, call.end) =>
         /\ Len(out.path) = 1
         /\ EndsWithCloseAsLine(out.path[1])

(***************************************************************************)
(* Rect: get_point, and specification SpecRectPoint: a caller measures a   *)
(* Rect contour and asks for the closest point to a query point and for    *)
(* the point at a distance.                                                *)
(***************************************************************************)
\* The tangent of side k of the traversal: 1 from (x, y), 2 the x + width
\* side, 3 the y + height side, 4 the x side.
rect_side_tangent(self, k) ==
  CASE k = 1 -> Pt(CopySign1(self.width), QZero)
    [] k = 2 -> Pt(QZero, CopySign1(self.height))
    [] k = 3 -> Pt(QNeg(CopySign1(self.width)), QZero)
    [] k = 4 -> Pt(QZero, QNeg(CopySign1(self.height)))

\* A corner: the tangent of the side arriving for GSK_PATH_START, of the
\* side leaving otherwise.
rect_corner(self, pos, arriving, leaving, direction) ==
  [pos |-> pos,
   tangent |-> rect_side_tangent(self, IF direction = GSK_PATH_START THEN arriving ELSE leaving)]

\* gsk_rect_contour_get_point from the third side on: distance is what is
\* left after the first two sides.
rect_get_point_back(self, distance, direction) ==
  LET w == QAbs(self.width)
      h == QAbs(self.height)
      far_x == QAdd(self.x, self.width)
      far_y == QAdd(self.y, self.height)
  IN  IF distance = QZero THEN rect_corner(self, Pt(far_x, far_y), 2, 3, direction)
      ELSE IF QLt(distance, w)
        THEN [pos |-> Pt(QSub(far_x, QMul(CopySign1(self.width), distance)), far_y),
              tangent |-> rect_side_tangent(self, 3)]
      ELSE IF QSub(distance, w) = QZero THEN rect_corner(self, Pt(self.x, far_y), 3, 4, direction)
      ELSE IF QLt(QSub(distance, w), h)
        THEN [pos |-> Pt(self.x, QSub(far_y, QMul(CopySign1(self.height), QSub(distance, w)))),
              tangent |-> rect_side_tangent(self, 4)]
      ELSE rect_corner(self, Pt(self.x, self.y), 4, 1, direction)

\* gsk_rect_contour_get_point: *pos and *tangent
gsk_rect_contour_get_point(self, distance, direction) ==
  LET w == QAbs(self.width)
      h == QAbs(self.height)
      far_x == QAdd(self.x, self.width)
  IN  IF distance = QZero THEN rect_corner(self, Pt(self.x, self.y), 4, 1, direction)
      ELSE IF QLt(distance, w)
        THEN [pos |-> Pt(QAdd(self.x, QMul(CopySign1(self.width), distance)), self.y),
              tangent |-> rect_side_tangent(self, 1)]
      ELSE IF QSub(distance, w) = QZero THEN rect_corner(self, Pt(far_x, self.y), 1, 2, direction)
      ELSE IF QLt(QSub(distance, w), h)
        THEN [pos |-> Pt(far_x, QAdd(self.y, QMul(CopySign1(self.height), QSub(distance, w)))),
              tangent |-> rect_side_tangent(self, 2)]
      ELSE rect_get_point_back(self, QSub(QSub(distance, w), h), direction)

RectGetClosestPoint(point, threshold) ==
  /\ measure # NoMeasure
  /\ call = NoCall
  /\ call' = [name |-> "get_closest_point", point |-> point, threshold |-> threshold]
  /\ out' = gsk_rect_contour_get_closest_point(contour, measure, measure.tolerance, point, threshold)
  /\ UNCHANGED <<contour, other, measure>>

RectGetPoint(distance, direction) ==
  /\ measure # NoMeasure
  /\ call = NoCall
  /\ call' = [name |-> "get_point", distance |-> distance, direction |-> direction]
  /\ out' = gsk_rect_contour_get_point(contour, distance, direction)
  /\ UNCHANGED <<contour, other, measure>>

InitRectPoint ==
  /\ contour \in ClosestRectContours
  /\ other = NoContour
  /\ measure = NoMeasure
  /\ call = NoCall
  /\ out = NoOut

NextRectPoint ==
  \/ \E tolerance \in Tolerances : RectInitMeasure(tolerance)
  \/ \E point \in RectQueryPoints : \E threshold \in Thresholds : RectGetClosestPoint(point, threshold)
  \/ /\ measure # NoMeasure
     /\ \E distance \in Distances(measure.length) :
          \E direction \in {GSK_PATH_START, GSK_PATH_END} : RectGetPoint(distance, direction)

SpecRectPoint == InitRectPoint /\ [][NextRectPoint]_vars

\* The point of side k closest to a point inside the rectangle, and its
\* offset along the traversal.
RectSideCandidate(self, p, k) ==
  LET w == QAbs(self.width)
      h == QAbs(self.height)
      far_x == QAdd(self.x, self.width)
      far_y == QAdd(self.y, self.height)
  IN  CASE k = 1 -> [pos |-> Pt(p.x, self.y), offset |-> QAbs(QSub(p.x, self.x))]
        [] k = 2 -> [pos |-> Pt(far_x, p.y), offset |-> QAdd(w, QAbs(QSub(p.y, self.y)))]
        [] k = 3 -> [pos |-> Pt(p.x, far_y), offset |-> QAdd(QAdd(w, h), QAbs(QSub(far_x, p.x)))]
        [] k = 4 -> [pos |-> Pt(self.x, p.y),
                     offset |-> QAdd(QAdd(QAdd(w, h), w), QAbs(QSub(far_y, p.y)))]

\* The sides whose closest point is at the least distance from p.
NearestSides(self, p) ==
  {k \in 1..4 : \A j \in 1..4 :
     QLe(Dist2(p, RectSideCandidate(self, p, k).pos), Dist2(p, RectSideCandidate(self, p, j).pos))}

\* A call of get_closest_point that returned true for a point inside the rectangle.
ClosestFromInside ==
  /\ call.name = "get_closest_point"
  /\ StrictlyInsideRect(contour, call.point)
  /\ out.ret

\* C24: for a query point inside a Rect, get_closest_point returns a point
\* of the boundary at the least distance, and of the sides at that distance
\* the one that comes first in the traversal: the reported offset is the
\* smallest offset of a closest point.
C24_RectInsideFirstSide ==
  ClosestFromInside =>
    \E k \in NearestSides(contour, call.point) :
      /\ out.out_pos = RectSideCandidate(contour, call.point, k).pos
      /\ out.out_offset = RectSideCandidate(contour, call.point, k).offset
      /\ out.out_distance2 = R2Of(Dist2(call.point, out.out_pos))
      /\ \A j \in NearestSides(contour, call.point) : k <= j

\* The point and tangent get_point reports at the offset the last call
\* reported, asked with the leaving direction.
PointAtReportedOffset == gsk_rect_contour_get_point(contour, out.out_offset, GSK_PATH_END)

\* C25: for every Rect, width and height of either sign, and every query for
\* which get_closest_point returns true, the reported position and tangent
\* are those get_point gives at the reported offset with the leaving (end)
\* direction.
C25_RectClosestAgreesWithGetPoint ==
  (call.name = "get_closest_point" /\ out.ret) =>
    /\ out.out_pos = PointAtReportedOffset.pos
    /\ out.out_tangent = PointAtReportedOffset.tangent

(***************************************************************************)
(* Specification SpecRectStandard: a caller traverses a Rect contour into  *)
(* a path builder, and asks the Rect and the Standard contour so built for *)
(* the winding of the same point.                                          *)
(***************************************************************************)
\* The Standard contour a caller builds from the operations foreach visits.
RectBuildStandard(garbage) ==
  /\ other = NoContour
  /\ other' = gsk_path_builder_free_to_path(
                add_cb_calls(gsk_path_builder_new, gsk_rect_contour_foreach(contour, {}).calls, 1, garbage))[1]
  /\ UNCHANGED <<contour, measure, call, out>>

RectGetWindingOf(point) ==
  /\ measure # NoMeasure
  /\ other # NoContour
  /\ call = NoCall
  /\ call' = [name |-> "get_winding", point |-> point]
  /\ out' = [ret |-> gsk_rect_contour_get_winding(contour, point)]
  /\ UNCHANGED <<contour, other, measure>>

InitRectStandard ==
  /\ contour \in ClosestRectContours
  /\ other = NoContour
  /\ measure = NoMeasure
  /\ call = NoCall
  /\ out = NoOut

NextRectStandard ==
  \/ \E tolerance \in Tolerances : RectInitMeasure(tolerance)
  \/ \E garbage \in GarbagePoints : RectBuildStandard(garbage)
  \/ \E point \in RectQueryPoints : RectGetWindingOf(point)
  \/ StandardGetWindingOther

SpecRectStandard == InitRectStandard /\ [][NextRectStandard]_vars

\* Both contours were asked for the winding of a point off the boundary.
BothAskedOffBoundary ==
  /\ call.name = "get_winding"
  /\ "other" \in DOMAIN out
  /\ StrictlyInsideRect(contour, call.point) \/ StrictlyOutsideRect(contour, call.point)

\* C26: a Rect and the Standard contour built from the operations the Rect's
\* foreach visits report the same winding for every query point that is not
\* on the boundary.
C26_RectWindingAsStandard ==
  BothAskedOffBoundary => out.ret = out.other

(***************************************************************************)
(* foreach: the points a visitor is handed.                                *)
(***************************************************************************)
\* All the points of a call lie in the array the call points into.
CallInsideArray(c) == c.base >= 0 /\ c.base + c.n <= Len(c.arr)

\* The last point of a call.
CallLastPoint(c) == CallPoints(c)[c.n]

\* The close call c, made after the call prev of a traversal that began with
\* the call first, goes from the last emitted point to the start point.  The
\* last point of the arc of a Circle is the point at end_angle: the point at
\* start_angle when the two differ by whole turns.
CloseJoinsEnds(c, prev, first) ==
  /\ CallPoints(c)[2] = CallPoints(first)[1]
  /\ IF contour.klass = "Circle"
       THEN /\ CallPoints(c)[1] = CirclePointTerm(contour, contour.start_angle)
            /\ (contour.end_angle - contour.start_angle) % 360 = 0
       ELSE CallPoints(c)[1] = CallLastPoint(prev)

\* C27: in every call of the visitor that foreach makes, for every variant,
\* all point_count points lie inside the point array prepared for the
\* traversal, and the two points of the close operation are the last emitted
\* point and the start point of the contour.
C27_ForeachPointsInsideArray ==
  call.name = "foreach" =>
    \A i \in 1..Len(out.calls) :
      /\ CallInsideArray(out.calls[i])
      /\ out.calls[i].op = "CLOSE" =>
           /\ i > 1
           /\ CloseJoinsEnds(out.calls[i], out.calls[i - 1], out.calls[1])

(***************************************************************************)
(* Rounded-Rect: print, and specification SpecRoundedRectShape: a caller   *)
(* traverses and prints a Rounded-Rect contour.  The string is the         *)
(* sequence of the commands appended, each with its points.                *)
(***************************************************************************)
\* APPEND_MOVE, APPEND_LINE, APPEND_CONIC and APPEND_CLOSE
APPEND_MOVE(p) == [cmd |-> "M", pts |-> << p >>]

APPEND_LINE(p) == [cmd |-> "L", pts |-> << p >>]

APPEND_CONIC(p1, p2) == [cmd |-> "O", pts |-> << p1, p2 >>, weight |-> "M_SQRT1_2"]

APPEND_CLOSE == [cmd |-> "z", pts |-> <<>>]

\* gsk_rounded_rect_contour_print: what is appended to the string
gsk_rounded_rect_contour_print(self) ==
  LET pts == get_rounded_rect_points(self.rect)
      sw  == rounded_rect_swap_points(pts)
  IN  IF self.ccw
        THEN << APPEND_MOVE(sw[1]),
                APPEND_CONIC(sw[2], sw[3]),
                APPEND_LINE(sw[4]),
                APPEND_CONIC(sw[5], sw[6]),
                APPEND_LINE(sw[7]),
                APPEND_CONIC(sw[8], sw[9]),
                APPEND_LINE(sw[10]),
                APPEND_CONIC(sw[11], sw[12]),
                APPEND_LINE(sw[13]),
                APPEND_CLOSE >>
        ELSE << APPEND_MOVE(pts[1]),
                APPEND_LINE(pts[2]),
                APPEND_CONIC(pts[3], pts[4]),
                APPEND_LINE(pts[5]),
                APPEND_CONIC(pts[6], pts[7]),
                APPEND_LINE(pts[8]),
                APPEND_CONIC(pts[9], pts[10]),
                APPEND_LINE(pts[11]),
                APPEND_CONIC(pts[12], pts[13]),
                APPEND_CLOSE >>

RoundedRectForeach(F) ==
  /\ call = NoCall
  /\ call' = [name |-> "foreach", F |-> F]
  /\ out' = gsk_rounded_rect_contour_foreach(contour, F)
  /\ UNCHANGED <<contour, other, measure>>

RoundedRectPrint ==
  /\ call = NoCall
  /\ call' = [name |-> "print"]
  /\ out' = [string |-> gsk_rounded_rect_contour_print(contour)]
  /\ UNCHANGED <<contour, other, measure>>

InitRoundedRectShape ==
  /\ contour \in RoundedRectContours
  /\ other = NoContour
  /\ measure = NoMeasure
  /\ call = NoCall
  /\ out = NoOut

NextRoundedRectShape ==
  \/ \E F \in Visitors(10) : RoundedRectForeach(F)
  \/ RoundedRectPrint

SpecRoundedRectShape == InitRoundedRectShape /\ [][NextRoundedRectShape]_vars

Corners == {"TOP_LEFT", "TOP_RIGHT", "BOTTOM_RIGHT", "BOTTOM_LEFT"}

\* A corner of the bounds.
CornerPoint(rect, k) ==
  Pt(IF k \in {"TOP_RIGHT", "BOTTOM_RIGHT"} THEN QAdd(rect.bounds.x, rect.bounds.width) ELSE rect.bounds.x,
     IF k \in {"BOTTOM_RIGHT", "BOTTOM_LEFT"} THEN QAdd(rect.bounds.y, rect.bounds.height) ELSE rect.bounds.y)

\* The two points at the radii of corner k from that corner, along the two
\* sides that meet in it.
CornerEnds(rect, k) ==
  LET c == CornerPoint(rect, k)
      r == rect.corner[k]
  IN  { Pt(IF k \in {"TOP_RIGHT", "BOTTOM_RIGHT"} THEN QSub(c.x, r.width) ELSE QAdd(c.x, r.width), c.y),
        Pt(c.x, IF k \in {"BOTTOM_RIGHT", "BOTTOM_LEFT"} THEN QSub(c.y, r.height) ELSE QAdd(c.y, r.height)) }

\* A conic from start around control to end is the conic of the corner at
\* control, between the two points at that corner's own radii.
ConicOfOwnCorner(rect, start, control, end) ==
  \E k \in Corners :
    /\ control = CornerPoint(rect, k)
    /\ {start, end} = CornerEnds(rect, k)

\* C28: in the foreach and in the print of a Rounded-Rect with four
\* independent corner radii, clockwise or counter-clockwise, every conic
\* starts and ends at the points offset from its corner of the bounds by the
\* radii of that same corner.
C28_CornerConicsUseOwnRadii ==
  /\ call.name = "foreach" =>
       \A i \in 1..Len(out.calls) :
         out.calls[i].op = "CONIC" =>
           ConicOfOwnCorner(contour.rect, CallPoints(out.calls[i])[1], CallPoints(out.calls[i])[2],
                            CallPoints(out.calls[i])[3])
  /\ call.name = "print" =>
       \A i \in 2..Len(out.string) :
         out.string[i].cmd = "O" =>
           ConicOfOwnCorner(contour.rect, out.string[i - 1].pts[Len(out.string[i - 1].pts)],
                            out.string[i].pts[1], out.string[i].pts[2])

(***************************************************************************)
(* get_closest_point: the offset reported against the length init_measure  *)
(* reported.  The offsets and the length of a Circle are multiples of pi   *)
(* and are compared as such.                                               *)
(***************************************************************************)
\* *out_length of init_measure
ReportedLength == IF contour.klass = "Circle" THEN measure.length_pi ELSE measure.length

\* C29: for every variant, Circles of a partial arc included, whenever
\* get_closest_point returns true the offset it reports lies between 0 and
\* the total length that init_measure reported.
C29_ClosestOffsetWithinLength ==
  (call.name = "get_closest_point" /\ out.ret) =>
    /\ QLe(QZero, out.out_offset)
    /\ QLe(out.out_offset, ReportedLength)

(***************************************************************************)
(* get_start_end, and specification SpecStartEnd: a caller reverses a      *)
(* contour and asks the contour and its reverse for their start and end.   *)
(***************************************************************************)
gsk_standard_contour_get_start_end(self) ==
  [start |-> self.points[1], end |-> self.points[Len(self.points)]]

gsk_rect_contour_get_start_end(self) ==
  [start |-> Pt(self.x, self.y), end |-> Pt(self.x, self.y)]

gsk_rounded_rect_contour_get_start_end(self) ==
  [start |-> Pt(QAdd(self.rect.bounds.x, self.rect.corner.TOP_LEFT.width), self.rect.bounds.y),
   end |-> Pt(QAdd(self.rect.bounds.x, self.rect.corner.TOP_LEFT.width), self.rect.bounds.y)]

gsk_contour_get_start_end(self) ==
  CASE self.klass = "Standard"    -> gsk_standard_contour_get_start_end(self)
    [] self.klass = "Rect"        -> gsk_rect_contour_get_start_end(self)
    [] self.klass = "RoundedRect" -> gsk_rounded_rect_contour_get_start_end(self)
    [] self.klass = "Circle"      -> gsk_circle_contour_get_start_end(self)

ReverseOnce ==
  /\ other = NoContour
  /\ other' = gsk_contour_reverse(contour)
  /\ UNCHANGED <<contour, measure, call, out>>

GetStartEnd ==
  /\ call = NoCall
  /\ call' = [name |-> "get_start_end"]
  /\ out' = gsk_contour_get_start_end(contour)
  /\ UNCHANGED <<contour, other, measure>>

GetStartEndOther ==
  /\ call.name = "get_start_end"
  /\ other # NoContour
  /\ "other" \notin DOMAIN out
  /\ out' = [start |-> out.start, end |-> out.end, other |-> gsk_contour_get_start_end(other)]
  /\ UNCHANGED <<contour, other, measure, call>>

NextStartEnd == ReverseOnce \/ GetStartEnd \/ GetStartEndOther

SpecStartEnd == InitReverse /\ [][NextStartEnd]_vars

\* C30: for every variant, get_start_end of the reverse of a contour returns
\* the end point of the contour as its start and the start point of the
\* contour as its end.
C30_ReverseSwapsStartEnd ==
  (call.name = "get_start_end" /\ "other" \in DOMAIN out) =>
    /\ out.other.start = out.end
    /\ out.other.end = out.start

====
